---- MODULE Spec2Model ----
(***************************************************************************)
(* FinGuard (core app): the balance / budget consistency engine.           *)
(*                                                                         *)
(* The relational store is modelled as one set of rows per table.  Money   *)
(* is a Decimal with two places; the model counts it in cents, so 45.50 is *)
(* 4550.  Dates are day numbers.  A Transaction's description and the      *)
(* created_at / updated_at stamps are read by no rule and are left out;    *)
(* "most recently created" is "largest id", ids being handed out in        *)
(* creation order and never reused.                                        *)
(***************************************************************************)
EXTENDS Integers, FiniteSets, Sequences, TLC

(***************************************************************************)
(* Bounds of the model.                                                    *)
(***************************************************************************)
\* Transactions ever created in one run of the ledger and status specifications.
MaxTransactions == 2
\* Budgets ever created in one run of the budget specifications.
MaxBudgets == 2
\* Budgets ever created in one run of the spending and status specifications.
MaxSpentBudgets == 1
\* Transactions ever created in one run of the spending specification.
MaxSpendings == 1
\* The calendar of the model: every month has DaysPerMonth days, day 1 opening one.
DaysPerMonth == 2
\* Nested saves a signal is followed through.
MaxSignalDepth == 3
\* Categories ever created by users in one run.
MaxCustomCategories == 1
\* Dates are the days 1 .. MaxDay.
MaxDay == 3

Users == {"alice", "bob"}
Days == 1 .. MaxDay
\* The dates the ledger specifications post transactions on (a balance reads no date).
LedgerDays == {1}
\* Amounts in cents: 45.50 and 5000.00 are the amounts of the end-to-end scenario.
Amounts == {4550, 500000}
\* Amounts callers pass that no transaction should carry, and one it may: -45.50, 0.00
\* and 45.50.
AnyAmounts == {-4550, 0, 4550}
\* The categories requests choose among (any stored category with such a name).
InputCategoryNames == {"Food", "Salary"}
\* The names users give the categories they create.
NewCategoryNames == {"Pets"}
\* The categories the admin edits.
AdminCategoryNames == {"Food"}
\* The categories the admin deletes and transactions of the deletion specification cite.
DeletableCategoryNames == {"Food", "Pets"}
\* The balances the admin types into the account form, in cents.
AdminBalances == {0, 100}
\* The periods budget requests ask for: period_end before period_start is left out.
Periods == {p \in Days \X Days : p[1] <= p[2]}
\* The limits budget requests ask for, in cents.
BudgetAmounts == {10000}
\* Limits and periods no budget should carry, among ones it may: -0.01 and 0.00, and
\* periods that end on or before the day they start.
AnyBudgetAmounts == {-1, 0, 10000}
ValidityDays == {1, 2, 3}
AnyPeriods == ValidityDays \X ValidityDays
\* The alert specification: its budgets, as <<user, category name, period_start,
\* period_end>>, the days the alerts are asked for, the categories of budgets and the
\* transactions written in it, as <<category name, amount, date>> (89.99, 90.00,
\* 100.00 and 150.00 of the limit 100.00, inside a period and outside it).
MaxAlertTransactions == 2
AlertUsers == {"alice"}
AlertBudgetInputs ==
    {<<"alice", "Food", 1, 2>>, <<"alice", "Food", 2, 3>>, <<"alice", "Rent", 1, 2>>,
     <<"alice", "Rent", 2, 3>>, <<"bob", "Food", 1, 2>>}
AlertDays == {1, 2, 3}
AlertBudgetCategoryNames == {"Food", "Rent"}
AlertTransactionInputs ==
    {<<"Food", 8999, 1>>, <<"Food", 9000, 1>>, <<"Food", 10000, 1>>, <<"Food", 15000, 1>>,
     <<"Food", 15000, 3>>, <<"Rent", 15000, 1>>, <<"Salary", 15000, 1>>}
\* The category specification: the ids its category rows get, the 13 defaults and
\* three more.
MaxCategoryRows == 15
\* The read specification: the periods of its budgets, the days the reads are made
\* on and the transactions written in it, as <<category name, amount, date>>.
ReadPeriods == {<<1, 2>>, <<3, 3>>}
ReadDays == {1, 3}
ReadTransactionInputs ==
    {<<"Food", 4550, 1>>, <<"Food", 9500, 1>>, <<"Food", 15000, 3>>, <<"Salary", 15000, 1>>}
\* Other amounts and dates, as <<amount, date>>, a transaction handed to the alert
\* check may have.
AlertVariations == {<<1, 1>>, <<15000, 3>>}
\* The periods budgets are created with and moved to in the update specification.
UpdatePeriods == {<<1, 2>>, <<3, 4>>}
\* The attribution specification: periods that share day 2 or day 3, and the dates
\* of its expenses.
AttributionPeriods == {<<1, 2>>, <<2, 3>>, <<3, 4>>}
AttributionDays == {2, 3}
\* The periods of the budgets of the ownership specification.
OwnershipPeriods == {<<1, 2>>, <<2, 3>>}
\* The category of the budgets of the validity and ownership specifications.
BudgetCategoryNames == {"Food"}
\* The spending specification: what is spent, and in which categories.
SpendAmounts == {4550}
SpendCategoryNames == {"Food", "Rent"}
\* The status specification: limits, amounts spent (69.99 + 0.01 = 70.00,
\* 89.99 + 0.01 = 90.00), one period and one date in it.
StatusBudgetAmounts == {3, 10000}
StatusAmounts == {1, 6999, 8999, 15000}
StatusPeriods == {<<1, 2>>}
StatusDays == {1}

(***************************************************************************)
(* Program constants.                                                      *)
(***************************************************************************)
INCOME == "INCOME"
EXPENSE == "EXPENSE"
TYPE_CHOICES == {INCOME, EXPENSE}
\* user = NULL: a system category.
NoUser == "none"
\* MinValueValidator(Decimal('0.01')), in cents.
MinAmount == 1
\* exclude_budget_id=None; None and 0 are both false in `if exclude_budget_id:`.
NoId == 0
\* init_categories' lists.
expense_categories ==
    <<"Food", "Rent", "Transport", "Entertainment", "Bills", "Shopping", "Health", "Other">>
income_categories == <<"Salary", "Freelance", "Investment", "Gift", "Other">>

VARIABLES
    users,          \* the registered users
    accounts,       \* rows [id, user, name, balance]
    categories,     \* rows [id, name, type, user, is_default]
    transactions,   \* rows [id, user, account, category, amount, type, date]
    budgets,        \* rows [id, user, category, amount, period_start, period_end]
    seq,            \* the next id of each table
    resp,           \* the last operation and its answer: [op, arg, result, value]
    inflight        \* the requests in progress, each with what it has read so far

vars == <<users, accounts, categories, transactions, budgets, seq, resp, inflight>>

\* result: "ok", "invalid" (a form re-rendered with errors), "error" (an exception
\* raised to the caller) or "notfound" (404).  arg and value are 0 except for a direct
\* recalculation, where they are the account's id and the balance returned.
Resp(op, result) == [op |-> op, arg |-> 0, result |-> result, value |-> 0]

(***************************************************************************)
(* Aggregation: Sum('amount') over a queryset is NULL when no row matches; *)
(* `x or Decimal('0.00')` replaces NULL (and a zero total) by 0.00.        *)
(***************************************************************************)
RECURSIVE SumAmount(_)
SumAmount(rows) ==
    IF rows = {} THEN 0
    ELSE LET r == CHOOSE x \in rows : TRUE
         IN r.amount + SumAmount(rows \ {r})

Aggregate(rows) == [isNull |-> rows = {}, total |-> SumAmount(rows)]

OrZero(agg) == IF agg.isNull \/ agg.total = 0 THEN 0 ELSE agg.total

(***************************************************************************)
(* Balance recalculation.                                                  *)
(***************************************************************************)
\* A slip in the sign: expenses are added to the balance.
NewBalanceUnsigned(account, txs) ==
    OrZero(Aggregate({t \in txs : t.account = account /\ t.type = INCOME}))
    + OrZero(Aggregate({t \in txs : t.account = account /\ t.type = EXPENSE}))

\* new_balance of recalculate_account_balance, over the transaction table txs
NewBalance(account, txs) ==
    LET total_income ==
            OrZero(Aggregate({t \in txs : t.account = account /\ t.type = INCOME}))
        total_expense ==
            OrZero(Aggregate({t \in txs : t.account = account /\ t.type = EXPENSE}))
    IN total_income - total_expense

\* account.balance = new_balance; account.save(update_fields=['balance', ...])
SaveBalance(accs, account, new_balance) ==
    {IF a.id = account THEN [a EXCEPT !.balance = new_balance] ELSE a : a \in accs}

\* An incremental update: the totals are added to the balance already stored.
recalculate_by_delta(accs, account, txs) ==
    LET old == (CHOOSE a \in accs : a.id = account).balance
        new_balance == old + NewBalance(account, txs)
    IN [accounts |-> SaveBalance(accs, account, new_balance), new_balance |-> new_balance]

\* recalculate_account_balance(account) over the tables accs and txs: the account
\* table it leaves and the balance it returns.
recalculate_account_balance(accs, account, txs) ==
    LET new_balance == NewBalance(account, txs)
    IN [accounts |-> SaveBalance(accs, account, new_balance), new_balance |-> new_balance]

\* hasattr(instance, '_updating_balance'): nothing ever sets the attribute.
HasUpdatingBalance(instance) == FALSE

\* A handler that recalculates every account.
update_every_balance(accs, instance, txs) ==
    {[a EXCEPT !.balance = NewBalance(a.id, txs)] : a \in accs}

\* post_save of Transaction: the account table after the signal handler.
update_balance_on_transaction_save(accs, instance, txs) ==
    IF HasUpdatingBalance(instance) THEN accs
    ELSE recalculate_account_balance(accs, instance.account, txs).accounts

\* A missed event: no handler is connected to post_delete.
no_update_on_transaction_delete(accs, instance, txs) == accs

\* post_delete of Transaction.
update_balance_on_transaction_delete(accs, instance, txs) ==
    recalculate_account_balance(accs, instance.account, txs).accounts

\* The receivers with one more: a handler on post_save of Account that recalculates.
ReceiversWithAccount(signal, sender) ==
    IF signal = "post_save" /\ sender \in {"Transaction", "Account"}
    THEN {"update_balance_on_transaction_save"}
    ELSE IF signal = "post_delete" /\ sender = "Transaction"
    THEN {"update_balance_on_transaction_delete"}
    ELSE IF signal = "post_save" /\ sender = "User" THEN {"create_default_account"}
    ELSE {}

\* The handlers signals.py connects with @receiver(signal, sender=...).
Receivers(signal, sender) ==
    IF signal = "post_save" /\ sender = "User" THEN {"create_default_account"}
    ELSE IF signal = "post_save" /\ sender = "Transaction"
    THEN {"update_balance_on_transaction_save"}
    ELSE IF signal = "post_delete" /\ sender = "Transaction"
    THEN {"update_balance_on_transaction_delete"}
    ELSE {}

\* The handlers that call recalculate_account_balance.
BalanceHandlers ==
    {"update_balance_on_transaction_save", "update_balance_on_transaction_delete"}

\* The calls of recalculate_account_balance that sending signal from sender leads to,
\* followed through depth nested saves: each balance handler connected calls it
\* once, and the call ends in account.save(), which sends post_save from Account.
RECURSIVE RecalculationsSent(_, _, _)
RecalculationsSent(signal, sender, depth) ==
    IF depth = 0 THEN 0
    ELSE Cardinality(Receivers(signal, sender) \cap BalanceHandlers)
            * (1 + RecalculationsSent("post_save", "Account", depth - 1))

(***************************************************************************)
(* Users and their default account.                                        *)
(***************************************************************************)
\* The handler without its `if created:` test.
create_account_on_every_save(accs, instance, created, id) ==
    accs \cup {[id |-> id, user |-> instance, name |-> "Main Account", balance |-> 0]}

\* post_save of User: the account table after the signal handler.
create_default_account(accs, instance, created, id) ==
    IF created
    THEN accs \cup {[id |-> id, user |-> instance, name |-> "Main Account", balance |-> 0]}
    ELSE accs

\* A new User is saved (registration, createsuperuser).
CreateUser(u) ==
    /\ u \notin users
    /\ users' = users \cup {u}
    /\ accounts' = create_default_account(accounts, u, TRUE, seq.account)
    /\ seq' = [seq EXCEPT !.account = @ + 1]
    /\ resp' = Resp("user_create", "ok")
    /\ UNCHANGED <<categories, transactions, budgets, inflight>>

\* An existing User is saved again (profile edit, login's last_login update).
SaveUser(u) ==
    /\ u \in users
    /\ accounts' = create_default_account(accounts, u, FALSE, seq.account)
    /\ seq' = [seq EXCEPT !.account = IF accounts' = accounts THEN @ ELSE @ + 1]
    /\ resp' = Resp("user_save", "ok")
    /\ UNCHANGED <<users, categories, transactions, budgets, inflight>>

(***************************************************************************)
(* Categories.                                                             *)
(***************************************************************************)
CategoryRow(id, name, type, user, is_default) ==
    [id |-> id, name |-> name, type |-> type, user |-> user, is_default |-> is_default]

\* Category.objects.get_or_create(name, type, user=None, defaults={is_default: True})
\* for names[i..]: the table after the loop, ids from id on.  One matching row is
\* taken, none is created, and more than one make get() raise
\* MultipleObjectsReturned, which ends the command with the rows created so far.
RECURSIVE GetOrCreateAll(_, _, _, _, _)
GetOrCreateAll(cats, names, i, type, id) ==
    IF i > Len(names) THEN [cats |-> cats, id |-> id, raised |-> FALSE]
    ELSE LET found == {c \in cats : c.name = names[i] /\ c.type = type /\ c.user = NoUser}
         IN IF Cardinality(found) > 1 THEN [cats |-> cats, id |-> id, raised |-> TRUE]
            ELSE IF found # {} THEN GetOrCreateAll(cats, names, i + 1, type, id)
            ELSE GetOrCreateAll(cats \cup {CategoryRow(id, names[i], type, NoUser, TRUE)},
                                names, i + 1, type, id + 1)

\* manage.py init_categories
InitCategories ==
    /\ LET e == GetOrCreateAll(categories, expense_categories, 1, EXPENSE, seq.category)
           i == IF e.raised THEN e
                ELSE GetOrCreateAll(e.cats, income_categories, 1, INCOME, e.id)
       IN /\ categories' = i.cats
          /\ seq' = [seq EXCEPT !.category = i.id]
          /\ resp' = Resp("init_categories", IF i.raised THEN "error" ELSE "ok")
    /\ UNCHANGED <<users, accounts, transactions, budgets, inflight>>

CategoryOf(id) == CHOOSE c \in categories : c.id = id

\* The categories a user's forms offer: the user's own and the system defaults.
VisibleCategories(u) == {c \in categories : c.user = u \/ c.is_default}

\* The categories requests choose among.
InputCategories == {c \in categories : c.name \in InputCategoryNames}

\* unique_together (name, user, type): the database compares no row whose user is NULL.
BreaksUnique(row) ==
    /\ row.user # NoUser
    /\ \E c \in categories :
          c.id # row.id /\ c.name = row.name /\ c.user = row.user /\ c.type = row.type

\* POST to CategoryCreateView by the logged-in user u.  The form holds name and type
\* only, so its uniqueness validation skips the triple and the INSERT raises.
CategoryCreateView(u, name, type) ==
    /\ u \in users
    /\ LET row == CategoryRow(seq.category, name, type, u, FALSE)
       IN IF BreaksUnique(row)
          THEN /\ resp' = Resp("category_create", "error")
               /\ UNCHANGED <<categories, seq>>
          ELSE /\ categories' = categories \cup {row}
               /\ seq' = [seq EXCEPT !.category = @ + 1]
               /\ resp' = Resp("category_create", "ok")
    /\ UNCHANGED <<users, accounts, transactions, budgets, inflight>>

\* The admin's change form of Category c, saved with another type.
CategoryAdminSave(c, type) ==
    /\ c \in categories
    /\ LET row == [c EXCEPT !.type = type]
       IN IF BreaksUnique(row)
          THEN /\ resp' = Resp("category_admin", "invalid")
               /\ UNCHANGED categories
          ELSE /\ categories' = (categories \ {c}) \cup {row}
               /\ resp' = Resp("category_admin", "ok")
    /\ UNCHANGED <<users, accounts, transactions, budgets, seq, inflight>>

\* A deletion that looks at no reference: the category goes, its transactions stay.
CategoryDeleteUnprotected(c) ==
    /\ c \in categories
    /\ categories' = categories \ {c}
    /\ budgets' = {b \in budgets : b.category # c.id}
    /\ resp' = [op |-> "category_delete", arg |-> c.id, result |-> "ok", value |-> 0]
    /\ UNCHANGED <<users, accounts, transactions, seq, inflight>>

\* The admin deletes Category c.  Transaction.category is on_delete=PROTECT: the
\* deletion is refused while a transaction cites c.  Budget.category is
\* on_delete=CASCADE: the budgets on c go with it.
CategoryAdminDelete(c) ==
    /\ c \in categories
    /\ IF \E t \in transactions : t.category = c.id
       THEN /\ resp' = [op |-> "category_delete", arg |-> c.id, result |-> "error",
                        value |-> 0]
            /\ UNCHANGED <<categories, budgets>>
       ELSE /\ categories' = categories \ {c}
            /\ budgets' = {b \in budgets : b.category # c.id}
            /\ resp' = [op |-> "category_delete", arg |-> c.id, result |-> "ok",
                        value |-> 0]
    /\ UNCHANGED <<users, accounts, transactions, seq, inflight>>

\* The admin's change form of Account a, saved with another balance.
AccountAdminSave(a, balance) ==
    /\ a \in accounts
    /\ accounts' = (accounts \ {a}) \cup {[a EXCEPT !.balance = balance]}
    /\ resp' = Resp("account_admin", "ok")
    /\ UNCHANGED <<users, categories, transactions, budgets, seq, inflight>>

(***************************************************************************)
(* Transactions.                                                           *)
(***************************************************************************)
TransactionRow(id, user, account, category, amount, type, date) ==
    [id |-> id, user |-> user, account |-> account, category |-> category,
     amount |-> amount, type |-> type, date |-> date]

\* A save() that is not overridden: no type is compared.
NoTypeCheck(tx) == TRUE

\* Transaction.save: `if self.category.type != self.type: raise ValueError`.
CategoryTypeMatches(tx) == CategoryOf(tx.category).type = tx.type

\* Transaction.save with its post_save signal, for a new or an existing row tx.
TransactionSave(tx, op) ==
    IF ~CategoryTypeMatches(tx)
    THEN /\ resp' = Resp(op, "error")
         /\ UNCHANGED <<accounts, transactions, seq>>
    ELSE /\ transactions' = {t \in transactions : t.id # tx.id} \cup {tx}
         /\ accounts' =
               IF "update_balance_on_transaction_save" \in Receivers("post_save", "Transaction")
               THEN update_balance_on_transaction_save(accounts, tx, transactions')
               ELSE accounts
         /\ seq' = [seq EXCEPT !.transaction = IF tx.id = @ THEN @ + 1 ELSE @]
         /\ resp' = Resp(op, "ok")

\* Model.delete with its post_delete signal.
TransactionDelete(tx, op) ==
    /\ transactions' = transactions \ {tx}
    /\ accounts' =
          IF "update_balance_on_transaction_delete" \in Receivers("post_delete", "Transaction")
          THEN update_balance_on_transaction_delete(accounts, tx, transactions')
          ELSE accounts
    /\ resp' = Resp(op, "ok")

\* TransactionForm.is_valid: the category is one of the field's queryset, the amount
\* passes the model field's validators, and clean() finds the types to agree.
\* instance is the row being edited, or {} for a new one.
TransactionFormValid(u, instance, c, amount, type) ==
    /\ c \in VisibleCategories(u)
    /\ instance # {} => \A t \in instance : c.type = t.type
    /\ amount >= MinAmount
    /\ type \in TYPE_CHOICES
    /\ c.type = type

\* Account.objects.filter(user=u).first(), ordering -created_at
FirstAccount(u) ==
    LET mine == {a \in accounts : a.user = u}
    IN CHOOSE a \in mine : \A b \in mine : b.id <= a.id

\* POST to TransactionCreateView by the logged-in user u.
TransactionCreateView(u, c, amount, type, date) ==
    /\ u \in users
    /\ IF ~TransactionFormValid(u, {}, c, amount, type)
       THEN /\ resp' = Resp("tx_create", "invalid")
            /\ UNCHANGED <<accounts, transactions, seq>>
       ELSE IF {a \in accounts : a.user = u} = {}
       THEN /\ resp' = Resp("tx_create", "error")
            /\ UNCHANGED <<accounts, transactions, seq>>
       ELSE TransactionSave(TransactionRow(seq.transaction, u, FirstAccount(u).id,
                                           c.id, amount, type, date), "tx_create")
    /\ UNCHANGED <<users, categories, budgets, inflight>>

\* POST to TransactionUpdateView by the logged-in user u for the transaction pk.
TransactionUpdateView(u, pk, c, amount, type, date) ==
    /\ u \in users
    /\ LET found == {t \in transactions : t.user = u /\ t.id = pk}
       IN IF found = {}
          THEN /\ resp' = Resp("tx_update", "notfound")
               /\ UNCHANGED <<accounts, transactions, seq>>
          ELSE IF ~TransactionFormValid(u, found, c, amount, type)
          THEN /\ resp' = Resp("tx_update", "invalid")
               /\ UNCHANGED <<accounts, transactions, seq>>
          ELSE LET t == CHOOSE x \in found : TRUE
               IN TransactionSave([t EXCEPT !.category = c.id, !.amount = amount,
                                            !.type = type, !.date = date], "tx_update")
    /\ UNCHANGED <<users, categories, budgets, inflight>>

\* The view without its get_queryset: the transaction is looked up among all users'.
TransactionDeleteViewUnscoped(u, pk) ==
    /\ u \in users
    /\ LET found == {t \in transactions : t.id = pk}
       IN IF found = {}
          THEN /\ resp' = Resp("tx_delete", "notfound")
               /\ UNCHANGED <<accounts, transactions>>
          ELSE TransactionDelete(CHOOSE x \in found : TRUE, "tx_delete")
    /\ UNCHANGED <<users, categories, budgets, seq, inflight>>

\* POST to TransactionDeleteView by the logged-in user u for the transaction pk.
TransactionDeleteView(u, pk) ==
    /\ u \in users
    /\ LET found == {t \in transactions : t.user = u /\ t.id = pk}
       IN IF found = {}
          THEN /\ resp' = Resp("tx_delete", "notfound")
               /\ UNCHANGED <<accounts, transactions>>
          ELSE TransactionDelete(CHOOSE x \in found : TRUE, "tx_delete")
    /\ UNCHANGED <<users, categories, budgets, seq, inflight>>

\* TransactionService.create_transaction(user, account, transaction_data)
create_transaction(u, account, c, amount, type, date) ==
    /\ u \in users
    /\ account \in accounts
    /\ TransactionSave(TransactionRow(seq.transaction, u, account.id, c.id,
                                      amount, type, date), "tx_create")
    /\ UNCHANGED <<users, categories, budgets, inflight>>

\* TransactionService.update_transaction(transaction, transaction_data): data gives
\* the new value of every field it names (the old value for a field it leaves out).
update_transaction(t, data) ==
    /\ t \in transactions
    /\ TransactionSave([t EXCEPT !.account = data.account, !.category = data.category,
                                 !.amount = data.amount, !.type = data.type,
                                 !.date = data.date], "tx_update")
    /\ UNCHANGED <<users, categories, budgets, inflight>>

\* TransactionService.delete_transaction(transaction)
delete_transaction(t) ==
    /\ t \in transactions
    /\ TransactionDelete(t, "tx_delete")
    /\ UNCHANGED <<users, categories, budgets, seq, inflight>>

\* The admin's change form of Transaction t, saved with another account: a ModelForm
\* (the fields' validators run), then Transaction.save and its signal.
TransactionAdminSave(t, account) ==
    /\ t \in transactions
    /\ account \in accounts
    /\ IF t.amount < MinAmount
       THEN /\ resp' = Resp("tx_admin", "invalid")
            /\ UNCHANGED <<accounts, transactions, seq>>
       ELSE TransactionSave([t EXCEPT !.account = account.id], "tx_admin")
    /\ UNCHANGED <<users, categories, budgets, inflight>>

\* A recalculation that returns the balance stored and writes nothing new.
RecalculateStored(account) ==
    /\ account \in accounts
    /\ resp' = [op |-> "recalculate", arg |-> account.id, result |-> "ok",
                value |-> account.balance]
    /\ UNCHANGED <<users, accounts, categories, transactions, budgets, seq, inflight>>

\* TransactionService.recalculate_account_balance(account), called on its own.
Recalculate(account) ==
    /\ account \in accounts
    /\ LET r == recalculate_account_balance(accounts, account.id, transactions)
       IN /\ accounts' = r.accounts
          /\ resp' = [op |-> "recalculate", arg |-> account.id, result |-> "ok",
                      value |-> r.new_balance]
    /\ UNCHANGED <<users, categories, transactions, budgets, seq, inflight>>

(***************************************************************************)
(* Requests that run beside each other.  Nothing takes a lock and nothing  *)
(* opens a database transaction, so each statement of a request is a step  *)
(* of its own: the INSERT of Transaction.save, the two aggregates of       *)
(* recalculate_account_balance and the UPDATE of account.save.             *)
(***************************************************************************)
\* POST to TransactionCreateView up to the INSERT: the row is stored, post_save is
\* sent and recalculate_account_balance is entered for the row's account.
StartTransactionCreate(u, c, amount, type, date) ==
    /\ u \in users
    /\ TransactionFormValid(u, {}, c, amount, type)
    /\ {a \in accounts : a.user = u} # {}
    /\ LET tx == TransactionRow(seq.transaction, u, FirstAccount(u).id, c.id, amount,
                                type, date)
       IN /\ CategoryTypeMatches(tx)
          /\ ~HasUpdatingBalance(tx)
          /\ transactions' = transactions \cup {tx}
          /\ seq' = [seq EXCEPT !.transaction = @ + 1]
          /\ inflight' = inflight \cup {[id |-> tx.id, account |-> tx.account,
                                          pc |-> "total_income", total_income |-> 0,
                                          total_expense |-> 0]}
    /\ UNCHANGED <<users, accounts, categories, budgets, resp>>

\* total_income = Transaction.objects.filter(account, type=INCOME).aggregate(...) or 0
ReadTotalIncome(r) ==
    /\ r \in inflight /\ r.pc = "total_income"
    /\ inflight' = (inflight \ {r}) \cup
          {[r EXCEPT !.pc = "total_expense",
                     !.total_income = OrZero(Aggregate({t \in transactions :
                                          t.account = r.account /\ t.type = INCOME}))]}
    /\ UNCHANGED <<users, accounts, categories, transactions, budgets, seq, resp>>

\* total_expense = Transaction.objects.filter(account, type=EXPENSE).aggregate(...) or 0
ReadTotalExpense(r) ==
    /\ r \in inflight /\ r.pc = "total_expense"
    /\ inflight' = (inflight \ {r}) \cup
          {[r EXCEPT !.pc = "save",
                     !.total_expense = OrZero(Aggregate({t \in transactions :
                                          t.account = r.account /\ t.type = EXPENSE}))]}
    /\ UNCHANGED <<users, accounts, categories, transactions, budgets, seq, resp>>

\* account.balance = total_income - total_expense; account.save(update_fields=...),
\* and the request answers.
SaveNewBalance(r) ==
    /\ r \in inflight /\ r.pc = "save"
    /\ accounts' = SaveBalance(accounts, r.account, r.total_income - r.total_expense)
    /\ inflight' = inflight \ {r}
    /\ resp' = [op |-> "tx_create", arg |-> r.id, result |-> "ok", value |-> 0]
    /\ UNCHANGED <<users, categories, transactions, budgets, seq>>

(***************************************************************************)
(* Budgets.                                                                *)
(***************************************************************************)
BudgetRow(id, user, category, amount, period_start, period_end) ==
    [id |-> id, user |-> user, category |-> category, amount |-> amount,
     period_start |-> period_start, period_end |-> period_end]

\* clean() with `<` for `<=`: a period of one day passes.
BudgetCleanOneDay(b) == ~(b.period_end < b.period_start)

\* Budget.clean: `if self.period_end <= self.period_start: raise ValidationError`.
BudgetClean(b) == ~(b.period_end <= b.period_start)

\* Budget.full_clean: the fields' validators, then clean().
BudgetFullClean(b) ==
    /\ b.amount >= MinAmount
    /\ \E c \in categories : c.id = b.category
    /\ BudgetClean(b)

\* Budget.save: full_clean() raises before anything is written.
BudgetSave(b, op) ==
    IF ~BudgetFullClean(b)
    THEN /\ resp' = Resp(op, "error")
         /\ UNCHANGED <<budgets, seq>>
    ELSE /\ budgets' = {x \in budgets : x.id # b.id} \cup {b}
         /\ seq' = [seq EXCEPT !.budget = IF b.id = @ THEN @ + 1 ELSE @]
         /\ resp' = Resp(op, "ok")

\* BudgetForm.is_valid: an expense category the user sees, a valid amount, and
\* clean(): period_end after period_start.
BudgetFormValid(u, c, amount, period_start, period_end) ==
    /\ c \in VisibleCategories(u)
    /\ c.type = EXPENSE
    /\ amount >= MinAmount
    /\ ~(period_end <= period_start)

\* With `<` for `<=`: periods that share only a boundary day pass.
validate_budget_overlap_strict(bs, user, category, period_start, period_end, exclude_budget_id) ==
    LET overlapping ==
            {b \in bs : /\ b.user = user /\ b.category = category
                        /\ b.period_start < period_end /\ b.period_end > period_start}
        kept == IF exclude_budget_id # NoId
                THEN {b \in overlapping : b.id # exclude_budget_id}
                ELSE overlapping
    IN kept # {}

\* BudgetService.validate_budget_overlap over the budget table bs.
validate_budget_overlap(bs, user, category, period_start, period_end, exclude_budget_id) ==
    LET overlapping ==
            {b \in bs : /\ b.user = user /\ b.category = category
                        /\ b.period_start <= period_end /\ b.period_end >= period_start}
        kept == IF exclude_budget_id # NoId
                THEN {b \in overlapping : b.id # exclude_budget_id}
                ELSE overlapping
    IN kept # {}

\* The creation that asks for no overlap check.
BudgetCreateViewUnchecked(u, c, amount, period_start, period_end) ==
    /\ u \in users
    /\ IF ~BudgetFormValid(u, c, amount, period_start, period_end)
       THEN /\ resp' = Resp("budget_create", "invalid")
            /\ UNCHANGED <<budgets, seq>>
       ELSE BudgetSave(BudgetRow(seq.budget, u, c.id, amount, period_start, period_end),
                       "budget_create")
    /\ UNCHANGED <<users, accounts, categories, transactions, inflight>>

\* POST to BudgetCreateView by the logged-in user u.
BudgetCreateView(u, c, amount, period_start, period_end) ==
    /\ u \in users
    /\ IF ~BudgetFormValid(u, c, amount, period_start, period_end)
       THEN /\ resp' = Resp("budget_create", "invalid")
            /\ UNCHANGED <<budgets, seq>>
       ELSE IF validate_budget_overlap(budgets, u, c.id, period_start, period_end, NoId)
       THEN /\ resp' = Resp("budget_create", "overlap")
            /\ UNCHANGED <<budgets, seq>>
       ELSE BudgetSave(BudgetRow(seq.budget, u, c.id, amount, period_start, period_end),
                       "budget_create")
    /\ UNCHANGED <<users, accounts, categories, transactions, inflight>>

\* The update that excludes no budget from the overlap check.
BudgetUpdateViewNoExclusion(u, pk, c, amount, period_start, period_end) ==
    /\ u \in users
    /\ LET found == {b \in budgets : b.user = u /\ b.id = pk}
       IN IF found = {}
          THEN /\ resp' = Resp("budget_update", "notfound")
               /\ UNCHANGED <<budgets, seq>>
          ELSE IF ~BudgetFormValid(u, c, amount, period_start, period_end)
          THEN /\ resp' = Resp("budget_update", "invalid")
               /\ UNCHANGED <<budgets, seq>>
          ELSE IF validate_budget_overlap(budgets, u, c.id, period_start, period_end, NoId)
          THEN /\ resp' = Resp("budget_update", "overlap")
               /\ UNCHANGED <<budgets, seq>>
          ELSE LET b == CHOOSE x \in found : TRUE
               IN BudgetSave([b EXCEPT !.category = c.id, !.amount = amount,
                                       !.period_start = period_start,
                                       !.period_end = period_end], "budget_update")
    /\ UNCHANGED <<users, accounts, categories, transactions, inflight>>

\* POST to BudgetUpdateView by the logged-in user u for the budget pk.
BudgetUpdateView(u, pk, c, amount, period_start, period_end) ==
    /\ u \in users
    /\ LET found == {b \in budgets : b.user = u /\ b.id = pk}
       IN IF found = {}
          THEN /\ resp' = Resp("budget_update", "notfound")
               /\ UNCHANGED <<budgets, seq>>
          ELSE IF ~BudgetFormValid(u, c, amount, period_start, period_end)
          THEN /\ resp' = Resp("budget_update", "invalid")
               /\ UNCHANGED <<budgets, seq>>
          ELSE IF validate_budget_overlap(budgets, u, c.id, period_start, period_end, pk)
          THEN /\ resp' = Resp("budget_update", "overlap")
               /\ UNCHANGED <<budgets, seq>>
          ELSE LET b == CHOOSE x \in found : TRUE
               IN BudgetSave([b EXCEPT !.category = c.id, !.amount = amount,
                                       !.period_start = period_start,
                                       !.period_end = period_end], "budget_update")
    /\ UNCHANGED <<users, accounts, categories, transactions, inflight>>

\* POST to BudgetDeleteView by the logged-in user u for the budget pk.
BudgetDeleteView(u, pk) ==
    /\ u \in users
    /\ LET found == {b \in budgets : b.user = u /\ b.id = pk}
       IN IF found = {}
          THEN /\ resp' = Resp("budget_delete", "notfound")
               /\ UNCHANGED budgets
          ELSE /\ budgets' = budgets \ found
               /\ resp' = Resp("budget_delete", "ok")
    /\ UNCHANGED <<users, accounts, categories, transactions, seq, inflight>>

\* Budget.objects.create(user, category, amount, period_start, period_end)
BudgetObjectsCreate(u, c, amount, period_start, period_end) ==
    /\ u \in users
    /\ c \in categories
    /\ BudgetSave(BudgetRow(seq.budget, u, c.id, amount, period_start, period_end),
                  "budget_objects_create")
    /\ UNCHANGED <<users, accounts, categories, transactions, inflight>>

\* date(today.year, today.month, 1) and date(today.year, today.month, last_day)
FirstDayOfMonth(today) == today - ((today - 1) % DaysPerMonth)
LastDayOfMonth(today) == FirstDayOfMonth(today) + DaysPerMonth - 1

\* BudgetService.create_monthly_budget(user, category, amount), called on day today.
create_monthly_budget(u, c, amount, today) ==
    /\ u \in users
    /\ c \in categories
    /\ BudgetSave(BudgetRow(seq.budget, u, c.id, amount, FirstDayOfMonth(today),
                            LastDayOfMonth(today)), "budget_create")
    /\ UNCHANGED <<users, accounts, categories, transactions, inflight>>

\* The filter with period_end__gt: a budget is over on its last day.
get_active_budgets_before_end(bs, user, today) ==
    {b \in bs : b.user = user /\ b.period_start <= today /\ b.period_end > today}

\* BudgetService.get_active_budgets(user) over the budget table bs, date.today()
\* being today.
get_active_budgets(bs, user, today) ==
    {b \in bs : b.user = user /\ b.period_start <= today /\ b.period_end >= today}

(***************************************************************************)
(* Budget status.                                                          *)
(***************************************************************************)
\* The filter with date__lt for date__lte: the last day of the period is left out.
SpentRowsBeforeEnd(budget, txs) ==
    {t \in txs : /\ t.user = budget.user /\ t.category = budget.category
                 /\ t.type = EXPENSE
                 /\ t.date >= budget.period_start /\ t.date < budget.period_end}

\* Transaction.objects.filter(user, category, type=EXPENSE, date__gte, date__lte)
SpentRows(budget, txs) ==
    {t \in txs : /\ t.user = budget.user /\ t.category = budget.category
                 /\ t.type = EXPENSE
                 /\ t.date >= budget.period_start /\ t.date <= budget.period_end}

\* The percentage rounded to a whole number before it is compared.
PercentageRounded(spent, amount) ==
    [whole |-> (spent * 100 + amount \div 2) \div amount, rest |-> 0]

\* float((spent / budget.amount) * 100), kept exact: `whole` percent and `rest`
\* hundredths of a cent of spending over them.  The Decimal quotient carries 28
\* digits and the float 53 bits, while two amounts of at most 12 digits give a
\* percentage that is a whole number or at least 1e-11 away from one, so neither
\* rounding moves a percentage across a whole number it is compared with.
Percentage(spent, amount) ==
    [whole |-> (spent * 100) \div amount, rest |-> (spent * 100) % amount]

\* percentage < n and percentage >= n for a whole number n.
Below(percentage, n) == percentage.whole < n
AtLeast(percentage, n) == percentage.whole >= n

\* The division entered whatever the limit is.
DividesAlways(budget) == TRUE

\* `if budget.amount > 0:`, the test under which spent is divided by the limit.
Divides(budget) == budget.amount > 0

\* Decimal's spent / amount raises when amount is 0 (DivisionByZero, and
\* InvalidOperation for 0 / 0).
DivisionRaises(amount) == amount = 0

\* percentage = 0.0
ZeroPercent == [whole |-> 0, rest |-> 0]

\* A slip in the sign: what was spent over the limit.
RemainingFlipped(budget, spent) == spent - budget.amount

\* remaining = budget.amount - spent
Remaining(budget, spent) == budget.amount - spent

\* BudgetService.get_budget_status(budget) over the transaction table txs.  raised
\* tells that the call ended in an exception instead of returning the snapshot.
get_budget_status(budget, txs) ==
    LET spent == OrZero(Aggregate(SpentRows(budget, txs)))
        remaining == Remaining(budget, spent)
        raised == Divides(budget) /\ DivisionRaises(budget.amount)
        percentage == IF Divides(budget) /\ ~raised
                      THEN Percentage(spent, budget.amount)
                      ELSE ZeroPercent
        status == IF Below(percentage, 70) THEN "good"
                  ELSE IF Below(percentage, 90) THEN "warning"
                  ELSE "danger"
    IN [spent |-> spent, remaining |-> remaining, percentage |-> percentage,
        status |-> status, is_exceeded |-> spent > budget.amount, raised |-> raised]

(***************************************************************************)
(* Budget alerts and the dashboard summary.                                *)
(***************************************************************************)
\* Budget.Meta.ordering = ['-period_start']: the orders in which a queryset may hand
\* out the rows bs, rows of one period_start coming in any order.
QueryOrders(bs) ==
    {o \in [1 .. Cardinality(bs) -> bs] :
        \A i, j \in 1 .. Cardinality(bs) :
           i < j => o[i] # o[j] /\ o[i].period_start >= o[j].period_start}

\* abs(status['remaining'])
Abs(x) == IF x < 0 THEN 0 - x ELSE x

\* The two messages, as what they say: the tier, the budget's category (its name is
\* in the text), the amount printed with two places (abs(remaining), or remaining)
\* and whether the text is the one for a transaction.  The percentage printed with
\* one place is left out.
ExceededAlert(budget, status, targeted) ==
    [tier |-> "exceeded", category |-> budget.category, amount |-> Abs(status.remaining),
     targeted |-> targeted]

PercentAlert(budget, status, targeted) ==
    [tier |-> "percent", category |-> budget.category, amount |-> status.remaining,
     targeted |-> targeted]

\* The test without the category: a transaction raises the alerts of every budget.
AffectsAnyBudget(transaction, budget) ==
    \A t \in transaction : t.type = EXPENSE

\* The test with the date: only a transaction dated in the budget's period counts.
AffectsBudgetInPeriod(transaction, budget) ==
    \A t \in transaction :
       /\ t.category = budget.category /\ t.type = EXPENSE
       /\ budget.period_start <= t.date /\ t.date <= budget.period_end

\* `transaction.category == budget.category and transaction.type == Transaction.EXPENSE`
AffectsBudget(transaction, budget) ==
    \A t \in transaction : t.category = budget.category /\ t.type = EXPENSE

\* The loop of check_budget_alerts over active_budgets[i ..].
RECURSIVE AlertsFrom(_, _, _, _)
AlertsFrom(active_budgets, i, txs, transaction) ==
    IF i > Len(active_budgets) THEN <<>>
    ELSE LET budget == active_budgets[i]
             status == get_budget_status(budget, txs)
             rest == AlertsFrom(active_budgets, i + 1, txs, transaction)
         IN IF transaction # {}
            THEN IF AffectsBudget(transaction, budget)
                 THEN IF status.is_exceeded
                      THEN <<ExceededAlert(budget, status, TRUE)>> \o rest
                      ELSE IF AtLeast(status.percentage, 90)
                      THEN <<PercentAlert(budget, status, TRUE)>> \o rest
                      ELSE rest
                 ELSE rest
            ELSE IF status.is_exceeded
                 THEN <<ExceededAlert(budget, status, FALSE)>> \o rest
                 ELSE IF AtLeast(status.percentage, 90)
                 THEN <<PercentAlert(budget, status, FALSE)>> \o rest
                 ELSE rest

\* The check that stops at the first alert.
check_first_budget_alert(active_budgets, txs, transaction) ==
    LET alerts == AlertsFrom(active_budgets, 1, txs, transaction)
    IN IF alerts = <<>> THEN <<>> ELSE <<alerts[1]>>

\* BudgetService.check_budget_alerts(user, transaction) over the transaction table
\* txs: active_budgets is get_active_budgets(user) in the order the queryset hands
\* it out, transaction is {} for None and {t} for the transaction t.
check_budget_alerts(active_budgets, txs, transaction) ==
    AlertsFrom(active_budgets, 1, txs, transaction)

\* BudgetService.get_all_budgets_with_status(user): all_budgets is the user's
\* budgets in the order the queryset hands them out.
get_all_budgets_with_status(all_budgets, txs) ==
    [k \in 1 .. Len(all_budgets) |->
        LET status == get_budget_status(all_budgets[k], txs)
        IN [budget |-> all_budgets[k].id, spent |-> status.spent,
            remaining |-> status.remaining, percentage |-> status.percentage,
            status |-> status.status, is_exceeded |-> status.is_exceeded]]

\* The summary that counts every budget at the status 'warning' as a warning.
get_budget_summary_by_status(active_budgets, txs) ==
    LET exceeded_count == Cardinality({b \in active_budgets :
                                         get_budget_status(b, txs).is_exceeded})
        warning_count == Cardinality({b \in active_budgets :
                                        /\ ~get_budget_status(b, txs).is_exceeded
                                        /\ get_budget_status(b, txs).status # "good"})
    IN [total |-> Cardinality(active_budgets), exceeded |-> exceeded_count,
        warning |-> warning_count,
        good |-> Cardinality(active_budgets) - exceeded_count - warning_count]

\* BudgetService.get_budget_summary(user): active_budgets is get_active_budgets(user).
get_budget_summary(active_budgets, txs) ==
    LET total_count == Cardinality(active_budgets)
        exceeded_count == Cardinality({b \in active_budgets :
                                         get_budget_status(b, txs).is_exceeded})
        warning_count == Cardinality({b \in active_budgets :
                                        /\ ~get_budget_status(b, txs).is_exceeded
                                        /\ AtLeast(get_budget_status(b, txs).percentage, 90)})
    IN [total |-> total_count, exceeded |-> exceeded_count, warning |-> warning_count,
        good |-> total_count - exceeded_count - warning_count]

\* A status call that stores what is left as the budget's limit.
GetBudgetStatusStoring(b) ==
    /\ b \in budgets
    /\ resp' = [op |-> "get_budget_status", arg |-> b.id, result |-> "ok",
                value |-> get_budget_status(b, transactions)]
    /\ budgets' = (budgets \ {b})
                     \cup {[b EXCEPT !.amount = get_budget_status(b, transactions).remaining]}
    /\ UNCHANGED <<users, accounts, categories, transactions, seq, inflight>>

\* The four reads of BudgetService as calls: what they return goes to resp, with the
\* user, the day and the queryset order the call was made with.
GetBudgetStatus(b) ==
    /\ b \in budgets
    /\ resp' = [op |-> "get_budget_status", arg |-> b.id, result |-> "ok",
                value |-> get_budget_status(b, transactions)]
    /\ UNCHANGED <<users, accounts, categories, transactions, budgets, seq, inflight>>

GetAllBudgetsWithStatus(u, all_budgets) ==
    /\ all_budgets \in QueryOrders({b \in budgets : b.user = u})
    /\ resp' = [op |-> "get_all_budgets_with_status", arg |-> 0, result |-> "ok",
                value |-> [user |-> u, order |-> all_budgets,
                           out |-> get_all_budgets_with_status(all_budgets, transactions)]]
    /\ UNCHANGED <<users, accounts, categories, transactions, budgets, seq, inflight>>

GetBudgetSummary(u, today) ==
    /\ resp' = [op |-> "get_budget_summary", arg |-> today, result |-> "ok",
                value |-> [user |-> u,
                           out |-> get_budget_summary(get_active_budgets(budgets, u, today),
                                                      transactions)]]
    /\ UNCHANGED <<users, accounts, categories, transactions, budgets, seq, inflight>>

CheckBudgetAlerts(u, today, active_budgets) ==
    /\ active_budgets \in QueryOrders(get_active_budgets(budgets, u, today))
    /\ resp' = [op |-> "check_budget_alerts", arg |-> today, result |-> "ok",
                value |-> [user |-> u, order |-> active_budgets,
                           out |-> check_budget_alerts(active_budgets, transactions, {})]]
    /\ UNCHANGED <<users, accounts, categories, transactions, budgets, seq, inflight>>

(***************************************************************************)
(* The ledger: users, default categories, transactions and balances.       *)
(***************************************************************************)
Init ==
    /\ users = {}
    /\ accounts = {}
    /\ categories = {}
    /\ transactions = {}
    /\ budgets = {}
    /\ seq = [account |-> 1, category |-> 1, transaction |-> 1, budget |-> 1]
    /\ resp = Resp("none", "ok")
    /\ inflight = {}

\* The fields update_transaction may be given, the account left as it is.
UpdateData(t) ==
    {[account |-> t.account, category |-> c.id, amount |-> amt, type |-> ty, date |-> d] :
        c \in InputCategories, amt \in Amounts, ty \in TYPE_CHOICES, d \in LedgerDays}

CanCreateTransaction == seq.transaction <= MaxTransactions

Next ==
    \/ \E u \in Users : CreateUser(u)
    \/ \E u \in Users : SaveUser(u)
    \/ InitCategories
    \/ \E u \in Users, c \in InputCategories, amt \in Amounts, ty \in TYPE_CHOICES,
          d \in LedgerDays :
          CanCreateTransaction /\ TransactionCreateView(u, c, amt, ty, d)
    \/ \E u \in Users, pk \in 1 .. MaxTransactions, c \in InputCategories, amt \in Amounts,
          ty \in TYPE_CHOICES, d \in LedgerDays :
          TransactionUpdateView(u, pk, c, amt, ty, d)
    \/ \E u \in Users, pk \in 1 .. MaxTransactions : TransactionDeleteView(u, pk)
    \/ \E a \in accounts, c \in InputCategories, amt \in Amounts, ty \in TYPE_CHOICES,
          d \in LedgerDays :
          CanCreateTransaction /\ create_transaction(a.user, a, c, amt, ty, d)
    \/ \E t \in transactions : \E data \in UpdateData(t) : update_transaction(t, data)
    \/ \E t \in transactions : delete_transaction(t)
    \/ \E a \in accounts : Recalculate(a)

Spec == Init /\ [][Next]_vars

(***************************************************************************)
(* The ledger with the category operations: users create categories and    *)
(* the admin edits a category's type.  init_categories is run once, on the *)
(* empty table: run after the admin has changed a default category's type, *)
(* it creates that default again, without end.                             *)
(***************************************************************************)
CanCreateCategory ==
    Cardinality({c \in categories : ~c.is_default}) < MaxCustomCategories

NextCategoryAdmin ==
    \/ \E u \in Users : CreateUser(u)
    \/ categories = {} /\ InitCategories
    \/ \E u \in Users, c \in InputCategories, amt \in Amounts, ty \in TYPE_CHOICES,
          d \in LedgerDays :
          CanCreateTransaction /\ TransactionCreateView(u, c, amt, ty, d)
    \/ \E t \in transactions : \E data \in UpdateData(t) : update_transaction(t, data)
    \/ \E t \in transactions : delete_transaction(t)
    \/ \E u \in Users, name \in NewCategoryNames, ty \in TYPE_CHOICES :
          CanCreateCategory /\ CategoryCreateView(u, name, ty)
    \/ \E c \in categories, ty \in TYPE_CHOICES :
          c.name \in AdminCategoryNames \cup NewCategoryNames /\ CategoryAdminSave(c, ty)

SpecCategoryAdmin == Init /\ [][NextCategoryAdmin]_vars

(***************************************************************************)
(* The category table alone: init_categories run again and again, users'   *)
(* own categories and the admin's change form.                             *)
(***************************************************************************)
NextCategories ==
    \/ \E u \in Users : CreateUser(u)
    \/ seq.category <= MaxCategoryRows /\ InitCategories
    \/ \E u \in Users, name \in NewCategoryNames, ty \in TYPE_CHOICES :
          seq.category <= MaxCategoryRows /\ CategoryCreateView(u, name, ty)
    \/ \E c \in categories, ty \in TYPE_CHOICES :
          c.name \in AdminCategoryNames \cup NewCategoryNames /\ CategoryAdminSave(c, ty)

SpecCategories == Init /\ [][NextCategories]_vars

(***************************************************************************)
(* The ledger with the admin's account form and direct recalculations.     *)
(***************************************************************************)
NextAccountAdmin ==
    \/ \E u \in Users : CreateUser(u)
    \/ InitCategories
    \/ \E a \in accounts, c \in InputCategories, amt \in Amounts, ty \in TYPE_CHOICES,
          d \in LedgerDays :
          CanCreateTransaction /\ create_transaction(a.user, a, c, amt, ty, d)
    \/ \E t \in transactions : delete_transaction(t)
    \/ \E a \in accounts, b \in AdminBalances : AccountAdminSave(a, b)
    \/ \E a \in accounts : Recalculate(a)

SpecAccountAdmin == Init /\ [][NextAccountAdmin]_vars

(***************************************************************************)
(* The budget specifications start from a seeded store: both users have    *)
(* registered and init_categories has run (a state the ledger reaches).    *)
(***************************************************************************)
InitSeeded ==
    /\ users = Users
    /\ accounts = create_default_account(
                      create_default_account({}, "alice", TRUE, 1), "bob", TRUE, 2)
    /\ LET e == GetOrCreateAll({}, expense_categories, 1, EXPENSE, 1)
           i == GetOrCreateAll(e.cats, income_categories, 1, INCOME, e.id)
       IN /\ categories = i.cats
          /\ seq = [account |-> 3, category |-> i.id, transaction |-> 1, budget |-> 1]
    /\ transactions = {}
    /\ budgets = {}
    /\ resp = Resp("none", "ok")
    /\ inflight = {}

\* Budgets through the three budget views.
NextBudgets ==
    \/ \E u \in Users, c \in InputCategories, amt \in BudgetAmounts, p \in Periods :
          seq.budget <= MaxBudgets /\ BudgetCreateView(u, c, amt, p[1], p[2])
    \/ \E u \in Users, pk \in 1 .. MaxBudgets, c \in InputCategories, amt \in BudgetAmounts,
          p \in Periods :
          BudgetUpdateView(u, pk, c, amt, p[1], p[2])
    \/ \E u \in Users, pk \in 1 .. MaxBudgets : BudgetDeleteView(u, pk)

SpecBudgets == InitSeeded /\ [][NextBudgets]_vars

\* The budget views and the service's create_monthly_budget.
NextMonthlyBudgets ==
    \/ NextBudgets
    \/ \E u \in Users, c \in InputCategories, amt \in BudgetAmounts, today \in Days :
          seq.budget <= MaxBudgets /\ create_monthly_budget(u, c, amt, today)

SpecMonthlyBudgets == InitSeeded /\ [][NextMonthlyBudgets]_vars

\* Spending: budgets are created and transactions posted on any day.
NextSpending ==
    \/ \E u \in Users, c \in InputCategories, amt \in BudgetAmounts, p \in Periods :
          seq.budget <= MaxSpentBudgets /\ BudgetCreateView(u, c, amt, p[1], p[2])
    \/ \E u \in Users, c \in categories, amt \in SpendAmounts, ty \in TYPE_CHOICES,
          d \in Days :
          /\ c.name \in SpendCategoryNames
          /\ seq.transaction <= MaxSpendings
          /\ TransactionCreateView(u, c, amt, ty, d)

SpecSpending == InitSeeded /\ [][NextSpending]_vars

\* Status: one period, and amounts that add up to the thresholds.
NextStatus ==
    \/ \E u \in Users, c \in InputCategories, amt \in StatusBudgetAmounts,
          p \in StatusPeriods :
          seq.budget <= MaxSpentBudgets /\ BudgetCreateView(u, c, amt, p[1], p[2])
    \/ \E u \in Users, c \in InputCategories, amt \in StatusAmounts, ty \in TYPE_CHOICES,
          d \in StatusDays :
          CanCreateTransaction /\ TransactionCreateView(u, c, amt, ty, d)
    \/ \E u \in Users, pk \in 1 .. MaxTransactions : TransactionDeleteView(u, pk)

SpecStatus == InitSeeded /\ [][NextStatus]_vars

(***************************************************************************)
(* The save paths of budgets, given any limit and any period.              *)
(***************************************************************************)
BudgetCategories == {c \in categories : c.name \in BudgetCategoryNames}

\* A request that is to be turned down is made at any time; one that may store a
\* budget, while fewer than MaxBudgets have been created.
CanAskBudget(amt, period_start, period_end) ==
    seq.budget <= MaxBudgets \/ amt <= 0 \/ period_end <= period_start

NextBudgetValidity ==
    \/ \E u \in Users, c \in BudgetCategories, amt \in AnyBudgetAmounts, p \in AnyPeriods :
          CanAskBudget(amt, p[1], p[2]) /\ BudgetCreateView(u, c, amt, p[1], p[2])
    \/ \E u \in Users, pk \in 1 .. MaxBudgets, c \in BudgetCategories,
          amt \in AnyBudgetAmounts, p \in AnyPeriods :
          BudgetUpdateView(u, pk, c, amt, p[1], p[2])
    \/ \E u \in Users, c \in BudgetCategories, amt \in AnyBudgetAmounts, p \in AnyPeriods :
          CanAskBudget(amt, p[1], p[2]) /\ BudgetObjectsCreate(u, c, amt, p[1], p[2])
    \/ \E u \in Users, c \in BudgetCategories, amt \in AnyBudgetAmounts,
          today \in ValidityDays :
          CanAskBudget(amt, 1, 2) /\ create_monthly_budget(u, c, amt, today)

SpecBudgetValidity == InitSeeded /\ [][NextBudgetValidity]_vars

(***************************************************************************)
(* Categories are created by users and deleted by the admin, while         *)
(* transactions and budgets cite them.                                     *)
(***************************************************************************)
DeletableCategories == {c \in categories : c.name \in DeletableCategoryNames}

\* init_categories has made one category for each name of its two lists.
CanCreateDeletable ==
    seq.category <= Len(expense_categories) + Len(income_categories) + MaxCustomCategories

NextCategoryDelete ==
    \/ \E u \in Users, name \in NewCategoryNames, ty \in TYPE_CHOICES :
          CanCreateDeletable /\ CategoryCreateView(u, name, ty)
    \/ \E u \in Users, c \in DeletableCategories, amt \in SpendAmounts, d \in LedgerDays :
          seq.transaction <= MaxSpendings /\ TransactionCreateView(u, c, amt, c.type, d)
    \/ \E u \in Users, pk \in 1 .. MaxSpendings : TransactionDeleteView(u, pk)
    \/ \E u \in Users, c \in DeletableCategories, amt \in BudgetAmounts,
          p \in StatusPeriods :
          seq.budget <= MaxSpentBudgets /\ BudgetCreateView(u, c, amt, p[1], p[2])
    \/ \E c \in DeletableCategories : CategoryAdminDelete(c)

SpecCategoryDelete == InitSeeded /\ [][NextCategoryDelete]_vars

(***************************************************************************)
(* The views of two users: each creates, updates and deletes transactions  *)
(* and budgets, its own and, by their ids, the other's.                    *)
(***************************************************************************)
NextOwnership ==
    \/ \E u \in Users, c \in BudgetCategories, amt \in Amounts, d \in LedgerDays :
          seq.transaction <= MaxSpendings /\ TransactionCreateView(u, c, amt, c.type, d)
    \/ \E u \in Users, pk \in 1 .. MaxSpendings, c \in BudgetCategories, amt \in Amounts,
          d \in LedgerDays :
          TransactionUpdateView(u, pk, c, amt, c.type, d)
    \/ \E u \in Users, pk \in 1 .. MaxSpendings : TransactionDeleteView(u, pk)
    \/ \E u \in Users, c \in BudgetCategories, amt \in BudgetAmounts, p \in OwnershipPeriods :
          seq.budget <= MaxSpentBudgets /\ BudgetCreateView(u, c, amt, p[1], p[2])
    \/ \E u \in Users, pk \in 1 .. MaxSpentBudgets, c \in BudgetCategories,
          amt \in BudgetAmounts, p \in OwnershipPeriods :
          BudgetUpdateView(u, pk, c, amt, p[1], p[2])
    \/ \E u \in Users, pk \in 1 .. MaxSpentBudgets : BudgetDeleteView(u, pk)

SpecOwnership == InitSeeded /\ [][NextOwnership]_vars

(***************************************************************************)
(* Transactions are moved between accounts, by the service given an        *)
(* 'account' field and by the admin.                                       *)
(***************************************************************************)
\* The fields update_transaction is given: an account, and an amount.
MoveData(t) ==
    {[account |-> a.id, category |-> t.category, amount |-> amt, type |-> t.type,
      date |-> t.date] : a \in accounts, amt \in Amounts}

NextAccountMove ==
    \/ \E a \in accounts, c \in InputCategories, amt \in Amounts, d \in LedgerDays :
          CanCreateTransaction /\ create_transaction(a.user, a, c, amt, c.type, d)
    \/ \E t \in transactions : \E data \in MoveData(t) : update_transaction(t, data)
    \/ \E t \in transactions, a \in accounts : TransactionAdminSave(t, a)
    \/ \E t \in transactions : delete_transaction(t)

SpecAccountMove == InitSeeded /\ [][NextAccountMove]_vars

(***************************************************************************)
(* Budgets of two categories and the transactions that fill them.          *)
(***************************************************************************)
NextAlerts ==
    \/ \E i \in AlertBudgetInputs, c \in categories, amt \in BudgetAmounts :
          /\ c.name = i[2]
          /\ seq.budget <= MaxBudgets
          /\ BudgetCreateView(i[1], c, amt, i[3], i[4])
    \/ \E u \in AlertUsers, c \in categories, i \in AlertTransactionInputs :
          /\ c.name = i[1]
          /\ seq.transaction <= MaxAlertTransactions
          /\ TransactionCreateView(u, c, i[2], c.type, i[3])

SpecAlerts == InitSeeded /\ [][NextAlerts]_vars

(***************************************************************************)
(* The reads of the budget service between the writes of transactions.     *)
(***************************************************************************)
NextReads ==
    \/ \E u \in AlertUsers, c \in categories, amt \in BudgetAmounts, p \in ReadPeriods :
          /\ c.name \in BudgetCategoryNames
          /\ seq.budget <= MaxSpentBudgets
          /\ BudgetCreateView(u, c, amt, p[1], p[2])
    \/ \E u \in AlertUsers, c \in categories, i \in ReadTransactionInputs :
          /\ c.name = i[1]
          /\ seq.transaction <= MaxSpendings
          /\ TransactionCreateView(u, c, i[2], c.type, i[3])
    \/ \E u \in AlertUsers, t \in transactions, c \in categories,
          i \in ReadTransactionInputs :
          /\ c.name = i[1]
          /\ TransactionUpdateView(u, t.id, c, i[2], c.type, i[3])
    \/ \E u \in AlertUsers, t \in transactions : TransactionDeleteView(u, t.id)
    \/ \E b \in budgets : GetBudgetStatus(b)
    \/ \E u \in Users : \E o \in QueryOrders({b \in budgets : b.user = u}) :
          GetAllBudgetsWithStatus(u, o)
    \/ \E u \in Users, d \in ReadDays : GetBudgetSummary(u, d)
    \/ \E u \in Users, d \in ReadDays :
          \E o \in QueryOrders(get_active_budgets(budgets, u, d)) :
             CheckBudgetAlerts(u, d, o)

SpecReads == InitSeeded /\ [][NextReads]_vars

(***************************************************************************)
(* Transaction writes of one user that run beside each other, and          *)
(* recalculations called once no request is in progress.                   *)
(***************************************************************************)
NextRace ==
    \/ \E u \in AlertUsers, c \in InputCategories, amt \in Amounts, d \in LedgerDays :
          /\ seq.transaction <= MaxTransactions
          /\ StartTransactionCreate(u, c, amt, c.type, d)
    \/ \E r \in inflight : ReadTotalIncome(r)
    \/ \E r \in inflight : ReadTotalExpense(r)
    \/ \E r \in inflight : SaveNewBalance(r)
    \/ \E a \in accounts : inflight = {} /\ a.user \in AlertUsers /\ Recalculate(a)

SpecRace == InitSeeded /\ [][NextRace]_vars

(***************************************************************************)
(* Budgets of two categories, created, updated and deleted by the views.   *)
(***************************************************************************)
AlertBudgetCategories == {c \in categories : c.name \in AlertBudgetCategoryNames}

NextBudgetUpdates ==
    \/ \E u \in Users, c \in AlertBudgetCategories, amt \in BudgetAmounts,
          p \in UpdatePeriods :
          seq.budget <= MaxBudgets /\ BudgetCreateView(u, c, amt, p[1], p[2])
    \/ \E u \in Users, pk \in 1 .. MaxBudgets, c \in AlertBudgetCategories,
          amt \in StatusBudgetAmounts, p \in UpdatePeriods :
          BudgetUpdateView(u, pk, c, amt, p[1], p[2])
    \/ \E u \in Users, pk \in 1 .. MaxBudgets : BudgetDeleteView(u, pk)

SpecBudgetUpdates == InitSeeded /\ [][NextBudgetUpdates]_vars

(***************************************************************************)
(* Budgets on periods that share days, made and moved by the views, and    *)
(* expenses dated on the shared day.                                       *)
(***************************************************************************)
NextAttribution ==
    \/ \E u \in AlertUsers, c \in AlertBudgetCategories, amt \in BudgetAmounts,
          p \in AttributionPeriods :
          seq.budget <= MaxBudgets /\ BudgetCreateView(u, c, amt, p[1], p[2])
    \/ \E u \in AlertUsers, pk \in 1 .. MaxBudgets, c \in AlertBudgetCategories,
          amt \in BudgetAmounts, p \in AttributionPeriods :
          BudgetUpdateView(u, pk, c, amt, p[1], p[2])
    \/ \E u \in AlertUsers, pk \in 1 .. MaxBudgets : BudgetDeleteView(u, pk)
    \/ \E u \in AlertUsers, c \in AlertBudgetCategories, amt \in SpendAmounts,
          d \in AttributionDays :
          seq.transaction <= MaxSpendings /\ TransactionCreateView(u, c, amt, c.type, d)
    \/ \E u \in AlertUsers, pk \in 1 .. MaxSpendings, c \in AlertBudgetCategories,
          amt \in SpendAmounts, d \in AttributionDays :
          TransactionUpdateView(u, pk, c, amt, c.type, d)

SpecAttribution == InitSeeded /\ [][NextAttribution]_vars

(***************************************************************************)
(* A budget, the transactions of its user, and the admin's change form of  *)
(* the budget's category.                                                  *)
(***************************************************************************)
NextIncomeBudgets ==
    \/ \E u \in AlertUsers, c \in BudgetCategories, amt \in BudgetAmounts,
          p \in StatusPeriods :
          seq.budget <= MaxSpentBudgets /\ BudgetCreateView(u, c, amt, p[1], p[2])
    \/ \E u \in AlertUsers, c \in InputCategories, amt \in Amounts, d \in StatusDays :
          seq.transaction <= MaxSpendings /\ TransactionCreateView(u, c, amt, c.type, d)
    \/ \E u \in AlertUsers, pk \in 1 .. MaxSpendings, c \in InputCategories,
          amt \in Amounts, d \in StatusDays :
          TransactionUpdateView(u, pk, c, amt, c.type, d)
    \/ \E u \in AlertUsers, pk \in 1 .. MaxSpendings : TransactionDeleteView(u, pk)
    \/ \E c \in categories, ty \in TYPE_CHOICES :
          c.name \in AdminCategoryNames /\ CategoryAdminSave(c, ty)

SpecIncomeBudgets == InitSeeded /\ [][NextIncomeBudgets]_vars

(***************************************************************************)
(* The write paths of transactions, the forms and the service, given any   *)
(* amount.                                                                 *)
(***************************************************************************)
\* The fields update_transaction is given: a category with its type, and an amount.
AmountData(t) ==
    {[account |-> t.account, category |-> c.id, amount |-> amt, type |-> c.type,
      date |-> t.date] : c \in InputCategories, amt \in AnyAmounts}

NextAmounts ==
    \/ \E u \in Users, c \in InputCategories, amt \in AnyAmounts, d \in LedgerDays :
          CanCreateTransaction /\ TransactionCreateView(u, c, amt, c.type, d)
    \/ \E u \in Users, pk \in 1 .. MaxTransactions, c \in InputCategories,
          amt \in AnyAmounts, d \in LedgerDays :
          TransactionUpdateView(u, pk, c, amt, c.type, d)
    \/ \E a \in accounts, c \in InputCategories, amt \in AnyAmounts, d \in LedgerDays :
          CanCreateTransaction /\ create_transaction(a.user, a, c, amt, c.type, d)
    \/ \E t \in transactions : \E data \in AmountData(t) : update_transaction(t, data)
    \/ \E t \in transactions : delete_transaction(t)

SpecAmounts == InitSeeded /\ [][NextAmounts]_vars

(***************************************************************************)
(* Properties of the ledger.                                               *)
(***************************************************************************)
\* Income minus expense in one signed pass over rows.
RECURSIVE SignedSum(_)
SignedSum(rows) ==
    IF rows = {} THEN 0
    ELSE LET r == CHOOSE x \in rows : TRUE
         IN (IF r.type = INCOME THEN r.amount ELSE 0 - r.amount) + SignedSum(rows \ {r})

TransactionsOn(a, txs) == {t \in txs : t.account = a}

BalanceOf(accs, a) == (CHOOSE x \in accs : x.id = a).balance

\* C1 (P1, balance correctness): after any sequence of transaction creates, updates
\* (account unchanged) and deletes, every account's stored balance is the sum of its
\* INCOME amounts minus the sum of its EXPENSE amounts, and 0 when it has none.
BalanceCorrect ==
    \A a \in accounts :
        /\ a.balance = SignedSum(TransactionsOn(a.id, transactions))
        /\ TransactionsOn(a.id, transactions) = {} => a.balance = 0

\* An account holding an income and an expense, just after an update went through.
BalanceCorrectWitness ==
    /\ resp.op = "tx_update" /\ resp.result = "ok"
    /\ \E a \in accounts :
          /\ a.balance = 500000 - 4550
          /\ \E i, e \in TransactionsOn(a.id, transactions) :
                i.type = INCOME /\ e.type = EXPENSE

IsExpense4550(t) == t.type = EXPENSE /\ t.amount = 4550
IsIncome500000(t) == t.type = INCOME /\ t.amount = 500000

\* C2 (end-to-end scenario): on a fresh account (no transaction, balance 0.00) creating
\* an EXPENSE of 45.50 leaves the balance at -45.50; creating an INCOME of 5000.00 next
\* leaves 4954.50; deleting the expense then leaves 5000.00; each balance is the one
\* stored when the operation returns.
EndToEndScenario ==
    [][\A a \in accounts :
        LET before == TransactionsOn(a.id, transactions)
            after == TransactionsOn(a.id, transactions')
        IN /\ (/\ before = {} /\ a.balance = 0
               /\ \E e \in after : after = {e} /\ IsExpense4550(e))
              => BalanceOf(accounts', a.id) = 0 - 4550
           /\ (\E e \in before : \E i \in after :
                 /\ before = {e} /\ IsExpense4550(e) /\ a.balance = 0 - 4550
                 /\ after = {e, i} /\ IsIncome500000(i))
              => BalanceOf(accounts', a.id) = 495450
           /\ (\E e, i \in before :
                 /\ before = {e, i} /\ IsExpense4550(e) /\ IsIncome500000(i)
                 /\ a.balance = 495450
                 /\ after = {i})
              => BalanceOf(accounts', a.id) = 500000]_vars

\* The scenario's last state: the expense (the first transaction made) is deleted and
\* the income (the second) is all the account holds.
EndToEndWitness ==
    /\ resp.op = "tx_delete" /\ resp.result = "ok"
    /\ seq.transaction = 3
    /\ \E a \in accounts :
          /\ a.balance = 500000
          /\ \E i \in transactions :
                /\ TransactionsOn(a.id, transactions) = {i}
                /\ i.id = 2 /\ IsIncome500000(i)

\* The answer of a rejected write: an error, and no transaction or balance changed.
Rejected ==
    /\ resp'.result \in {"invalid", "error"}
    /\ transactions' = transactions
    /\ accounts' = accounts

\* C3 (P3, category/type match): a create or an update of an existing transaction whose
\* type differs from its category's type is answered with an error and leaves the stored
\* transactions and every balance as they were; no step stores such a transaction.
TypeMismatchRejected ==
    [][/\ \A t \in transactions' \ transactions :
             \E c \in categories' : c.id = t.category /\ c.type = t.type
       /\ \/ Rejected
          \/ resp'.result = "notfound"
          \/ \A c \in InputCategories, ty \in TYPE_CHOICES, amt \in Amounts, d \in LedgerDays :
                c.type # ty =>
                   /\ resp'.op = "tx_create" =>
                         /\ \A u \in Users : ~TransactionCreateView(u, c, amt, ty, d)
                         /\ \A a \in accounts : ~create_transaction(a.user, a, c, amt, ty, d)
                   /\ resp'.op = "tx_update" =>
                         /\ \A u \in Users, pk \in 1 .. MaxTransactions :
                               ~TransactionUpdateView(u, pk, c, amt, ty, d)
                         /\ \A t \in transactions :
                               ~update_transaction(t, [account |-> t.account,
                                                       category |-> c.id, amount |-> amt,
                                                       type |-> ty, date |-> d])
      ]_vars

\* Transaction.save raised ValueError on an update while transactions are stored.
TypeMismatchWitness ==
    /\ resp.op = "tx_update" /\ resp.result = "error"
    /\ transactions # {}

AccountsOf(accs, u) == {a \in accs : a.user = u}

\* C5 (default account): creating a User creates in the same step exactly one Account of
\* that user, named 'Main Account', with balance 0; saving an existing User creates none;
\* so every User owns exactly one Account.
DefaultAccount ==
    /\ [](\A u \in users :
            /\ Cardinality(AccountsOf(accounts, u)) = 1
            /\ \A a \in AccountsOf(accounts, u) : a.name = "Main Account")
    /\ [][/\ \A u \in users' \ users :
                /\ AccountsOf(accounts, u) = {}
                /\ \E a \in accounts' :
                      /\ AccountsOf(accounts', u) = {a}
                      /\ a.name = "Main Account" /\ a.balance = 0
          /\ resp'.op = "user_save" => accounts' = accounts]_vars

\* Both users exist and one of them has just been saved again.
DefaultAccountWitness ==
    /\ resp.op = "user_save"
    /\ users = Users
    /\ Cardinality(accounts) = 2

\* C4 (type-match invariant): every stored transaction's type is its category's type,
\* also after the admin has edited the type of a category that transactions cite.
TypeMatchInvariant ==
    \A t \in transactions : \E c \in categories : c.id = t.category /\ c.type = t.type

\* C10 (P2, idempotence): a recalculation returns income minus expense over the
\* account's current transactions whatever balance was stored before, stores what it
\* returns, and a second recalculation of the same account right after the first returns
\* the same value and leaves every balance as the first left it.
RecalculationIdempotent ==
    [][resp'.op = "recalculate" =>
          /\ resp'.value = SignedSum(TransactionsOn(resp'.arg, transactions'))
          /\ BalanceOf(accounts', resp'.arg) = resp'.value
          /\ (resp.op = "recalculate" /\ resp.arg = resp'.arg) =>
                (resp'.value = resp.value /\ accounts' = accounts)]_vars

\* A recalculation has just returned the balance of an account that holds transactions,
\* while the other account's balance, typed in by the admin, is not its transactions'.
RecalculationWitness ==
    /\ resp.op = "recalculate"
    /\ resp.value # 0
    /\ TransactionsOn(resp.arg, transactions) # {}
    /\ \E a \in accounts :
          a.id # resp.arg /\ a.balance # SignedSum(TransactionsOn(a.id, transactions))

(***************************************************************************)
(* Properties of budgets.                                                  *)
(***************************************************************************)
\* C6: the status of a budget with a positive limit is "good" exactly when
\* spent * 100 / amount < 70, "warning" exactly when it is at least 70 and under 90,
\* and "danger" exactly when it is at least 90.  With the limit 100.00: 69.99 spent
\* is good, 70.00 and 89.99 are warning, 90.00 is danger, and 150.00 is danger,
\* exceeded, with -50.00 remaining.
StatusThresholds ==
    \A b \in budgets :
       b.amount > 0 =>
          LET st == get_budget_status(b, transactions)
          IN /\ st.status \in {"good", "warning", "danger"}
             /\ st.status = "good" <=> st.spent * 100 < 70 * b.amount
             /\ st.status = "warning" <=> /\ st.spent * 100 >= 70 * b.amount
                                          /\ st.spent * 100 < 90 * b.amount
             /\ st.status = "danger" <=> st.spent * 100 >= 90 * b.amount
             /\ b.amount = 10000 =>
                   /\ st.spent = 6999 => st.status = "good"
                   /\ st.spent = 7000 => st.status = "warning"
                   /\ st.spent = 8999 => st.status = "warning"
                   /\ st.spent = 9000 => st.status = "danger"
                   /\ st.spent = 15000 => /\ st.status = "danger"
                                          /\ st.is_exceeded
                                          /\ st.remaining = -5000

\* A budget of 100.00 on which 69.99 and 0.01 have been spent, and a warning for it.
StatusThresholdsWitness ==
    \E b \in budgets :
       /\ b.amount = 10000
       /\ {t.amount : t \in SpentRows(b, transactions)} = {1, 6999}
       /\ get_budget_status(b, transactions).spent = 7000
       /\ get_budget_status(b, transactions).status = "warning"

\* Whether the transaction t counts for the budget b.
CountsFor(b, t) ==
    /\ t.user = b.user
    /\ t.category = b.category
    /\ t.type = EXPENSE
    /\ b.period_start <= t.date
    /\ t.date <= b.period_end

\* C7: spent is the sum of the amounts of exactly the transactions of the budget's
\* user, of its category, of type EXPENSE and dated from period_start to period_end,
\* both days included: nothing is spent without transactions, and taking a
\* transaction away lowers spent by its amount if it is one of those and leaves
\* spent alone otherwise.  A transaction on period_start or on period_end counts;
\* one on the day before period_start or on the day after period_end does not.
PeriodInclusive ==
    \A b \in budgets :
       LET spent(txs) == get_budget_status(b, txs).spent
           mine(t) == t.user = b.user /\ t.category = b.category /\ t.type = EXPENSE
       IN /\ spent({}) = 0
          /\ \A t \in transactions :
                /\ spent(transactions) - spent(transactions \ {t})
                      = IF CountsFor(b, t) THEN t.amount ELSE 0
                /\ mine(t) /\ t.date \in {b.period_start, b.period_end}
                      => spent({t}) = t.amount
                /\ mine(t) /\ t.date \in {b.period_start - 1, b.period_end + 1}
                      => spent({t}) = 0

\* A transaction dated on the last day of its user's budget has been counted.
PeriodInclusiveWitness ==
    \E b \in budgets, t \in transactions :
       /\ resp.op = "tx_create" /\ resp.result = "ok"
       /\ CountsFor(b, t)
       /\ t.date = b.period_end
       /\ get_budget_status(b, transactions).spent = t.amount

\* The budgets of the table bs that stand against a request.
Rivals(bs, user, category, exclude_budget_id) ==
    {b \in bs : /\ b.user = user /\ b.category = category
                /\ (exclude_budget_id # NoId => b.id # exclude_budget_id)}

\* C8: validate_budget_overlap is true exactly when a budget of the same user and
\* category, other than the excluded one, has period_start <= the requested
\* period_end and period_end >= the requested period_start, which for a period that
\* does not end before it starts is to share a day with it.  A budget of another
\* user or category never counts; a period that starts on the day a budget ends, or
\* ends on the day it starts, overlaps it; a period on the days next to it does not.
OverlapDetection ==
    \A u \in Users, c \in InputCategories, s \in Days, e \in Days,
       x \in {NoId} \cup (1 .. MaxBudgets) :
       LET found == validate_budget_overlap(budgets, u, c.id, s, e, x)
           rivals == Rivals(budgets, u, c.id, x)
       IN /\ found <=> \E b \in rivals : b.period_start <= e /\ b.period_end >= s
          /\ s <= e =>
                (found <=> \E b \in rivals :
                              (s .. e) \cap (b.period_start .. b.period_end) # {})
          /\ found <=> validate_budget_overlap(rivals, u, c.id, s, e, NoId)
          /\ \A b \in rivals :
                /\ s <= e /\ (s = b.period_end \/ e = b.period_start) => found
                /\ s = b.period_end + 1 \/ e = b.period_start - 1 =>
                      ~validate_budget_overlap({b}, u, c.id, s, e, x)

\* A request has been turned down for an overlap, and a stored budget is overlapped
\* by the period that starts on its last day, not by the one that starts the day after.
OverlapDetectionWitness ==
    /\ resp.result = "overlap"
    /\ \E b \in budgets :
          /\ validate_budget_overlap(budgets, b.user, b.category,
                                     b.period_end, b.period_end + 1, NoId)
          /\ ~validate_budget_overlap(budgets, b.user, b.category,
                                      b.period_end + 1, b.period_end + 2, NoId)
          /\ ~validate_budget_overlap(budgets, b.user, b.category,
                                      b.period_start, b.period_end, b.id)

\* C9: no two stored budgets of one user and one category have periods that overlap,
\* whether they came through BudgetCreateView, BudgetUpdateView or
\* create_monthly_budget.
NoOverlappingBudgets ==
    \A b1 \in budgets, b2 \in budgets :
       /\ b1.id # b2.id
       /\ b1.user = b2.user
       /\ b1.category = b2.category
       => ~(b1.period_start <= b2.period_end /\ b1.period_end >= b2.period_start)

\* Budget objects with the limit 0, which no save lets into the table.
ZeroBudgets ==
    {BudgetRow(NoId, u, c.id, 0, p[1], p[2]) :
        u \in Users, c \in InputCategories, p \in StatusPeriods}

\* C11 (P7, zero-budget guard): for a budget whose amount is 0, get_budget_status
\* raises no error and returns the percentage 0.0, whatever has been spent.
ZeroBudgetGuard ==
    \A b \in ZeroBudgets :
       LET st == get_budget_status(b, transactions)
       IN /\ ~st.raised
          /\ st.percentage.whole = 0 /\ st.percentage.rest = 0

\* Money has been spent in the category and period of a budget whose limit is 0.
ZeroBudgetGuardWitness ==
    \E b \in ZeroBudgets :
       /\ get_budget_status(b, transactions).spent = 7000
       /\ get_budget_status(b, transactions).percentage = ZeroPercent

PositiveAmounts ==
    \A t \in transactions : t.amount > 0

\* The answer of a rejected budget save: an error, and the budget table as it was.
BudgetRejected ==
    /\ resp'.result \in {"invalid", "error"}
    /\ budgets' = budgets

\* C14 (budget validity): every stored budget has period_end after period_start and a
\* limit above 0; a save with period_end on or before period_start, or with a limit of
\* 0 or less, is answered with a validation error and stores nothing, through the
\* forms, through Budget.objects.create and through create_monthly_budget.
BudgetValidity ==
    /\ [](\A b \in budgets : b.period_end > b.period_start /\ b.amount > 0)
    /\ [][\/ BudgetRejected
          \/ resp'.result = "notfound"
          \/ \A u \in Users, c \in BudgetCategories, amt \in AnyBudgetAmounts :
                /\ \A p \in AnyPeriods :
                      amt <= 0 \/ p[2] <= p[1] =>
                         /\ ~BudgetCreateView(u, c, amt, p[1], p[2])
                         /\ ~BudgetObjectsCreate(u, c, amt, p[1], p[2])
                         /\ \A pk \in 1 .. MaxBudgets :
                               ~BudgetUpdateView(u, pk, c, amt, p[1], p[2])
                /\ \A today \in ValidityDays :
                      amt <= 0 => ~create_monthly_budget(u, c, amt, today)
         ]_vars

\* Budget.objects.create has just raised while a budget is stored.
BudgetValidityWitness ==
    /\ resp.op = "budget_objects_create" /\ resp.result = "error"
    /\ budgets # {}

\* C15 (protected category deletion): the category of every stored transaction exists;
\* deleting a category that a transaction cites is refused and leaves categories,
\* transactions and balances as they were; deleting a category that no transaction
\* cites removes it, and leaves the transactions and balances as they were.
ProtectedCategory ==
    /\ [](\A t \in transactions : \E c \in categories : c.id = t.category)
    /\ [][resp'.op = "category_delete" =>
            /\ transactions' = transactions
            /\ accounts' = accounts
            /\ IF \E t \in transactions : t.category = resp'.arg
               THEN resp'.result = "error" /\ categories' = categories
               ELSE /\ resp'.result = "ok"
                    /\ categories' = {c \in categories : c.id # resp'.arg}
         ]_vars

\* The deletion of a category has just been refused for the transaction that cites
\* it, after the category Food, which nothing cited, was deleted.
ProtectedCategoryWitness ==
    /\ resp.op = "category_delete" /\ resp.result = "error"
    /\ \E t \in transactions : t.category = resp.arg
    /\ \A c \in categories : c.name # "Food"

\* The answer to a request for an entity of another user: not found, and every table,
\* the balances with it, as it was.
NotFoundUnchanged ==
    /\ resp'.result = "notfound"
    /\ UNCHANGED <<users, accounts, categories, transactions, budgets>>

\* C16 (ownership scoping): a user's request to update or delete a transaction or a
\* budget of another user is answered as not found and changes no entity and no
\* balance; an update or a delete that goes through is of an entity whose user is the
\* requesting user.
OwnershipScoped ==
    [][\A u \in Users :
          /\ \A pk \in 1 .. MaxSpendings :
                /\ (\E t \in transactions : t.id = pk /\ t.user # u) =>
                      \/ NotFoundUnchanged
                      \/ /\ ~TransactionDeleteView(u, pk)
                         /\ \A c \in BudgetCategories, amt \in Amounts, d \in LedgerDays :
                               ~TransactionUpdateView(u, pk, c, amt, c.type, d)
                /\ (\A t \in transactions : t.id = pk => t.user # u) =>
                      \/ resp'.result # "ok"
                      \/ /\ ~TransactionDeleteView(u, pk)
                         /\ \A c \in BudgetCategories, amt \in Amounts, d \in LedgerDays :
                               ~TransactionUpdateView(u, pk, c, amt, c.type, d)
          /\ \A pk \in 1 .. MaxSpentBudgets :
                /\ (\E b \in budgets : b.id = pk /\ b.user # u) =>
                      \/ NotFoundUnchanged
                      \/ /\ ~BudgetDeleteView(u, pk)
                         /\ \A c \in BudgetCategories, amt \in BudgetAmounts, p \in OwnershipPeriods :
                               ~BudgetUpdateView(u, pk, c, amt, p[1], p[2])
                /\ (\A b \in budgets : b.id = pk => b.user # u) =>
                      \/ resp'.result # "ok"
                      \/ /\ ~BudgetDeleteView(u, pk)
                         /\ \A c \in BudgetCategories, amt \in BudgetAmounts, p \in OwnershipPeriods :
                               ~BudgetUpdateView(u, pk, c, amt, p[1], p[2])
      ]_vars

\* An update has just been answered as not found although every transaction asked for
\* is stored, while a transaction and a budget of different users are stored.
OwnershipScopedWitness ==
    /\ resp.op = "tx_update" /\ resp.result = "notfound"
    /\ \A pk \in 1 .. MaxSpendings : \E t \in transactions : t.id = pk
    /\ \E t \in transactions, b \in budgets : t.user # b.user

\* C17 (account move on update): when an update moves a transaction from one account
\* to another, both accounts are recalculated: after the update the balance of each
\* is income minus expense over the transactions it then holds.
AccountMoveRecalculated ==
    [][\A t \in transactions, n \in transactions' :
          t.id = n.id /\ t.account # n.account =>
             /\ BalanceOf(accounts', n.account)
                   = SignedSum(TransactionsOn(n.account, transactions'))
             /\ BalanceOf(accounts', t.account)
                   = SignedSum(TransactionsOn(t.account, transactions'))
      ]_vars

\* C18 (balance is derived only): an account is created with the balance 0, and
\* whenever the stored balance of an account changes, the new balance is the one
\* recalculate_account_balance computes, income minus expense over the account's
\* transactions; no operation stores a balance that its caller supplies, the admin's
\* account form included.
BalanceDerivedOnly ==
    [][\A n \in accounts' :
          IF \E a \in accounts : a.id = n.id
          THEN n.balance # BalanceOf(accounts, n.id) =>
                  n.balance = SignedSum(TransactionsOn(n.id, transactions'))
          ELSE n.balance = 0
      ]_vars

\* The transaction a step writes: the row created or changed, the row deleted, or,
\* when an update stores the values already there, any stored row.
Written ==
    IF transactions' = transactions THEN transactions
    ELSE IF transactions' \ transactions # {} THEN transactions' \ transactions
    ELSE transactions \ transactions'

\* C19 (recalculation effect and re-entrancy): a create, an update or a delete of a
\* transaction leads to one call of recalculate_account_balance, however far the saves
\* it causes are followed, so the write ends; the step stores income minus expense as
\* the balance of the written transaction's account and changes nothing else: no
\* other account, no field of that account but the balance, no other transaction,
\* no budget and no category.
RecalculationEffect ==
    /\ [](\A depth \in 1 .. MaxSignalDepth :
            /\ RecalculationsSent("post_save", "Transaction", depth) = 1
            /\ RecalculationsSent("post_delete", "Transaction", depth) = 1)
    /\ [][resp'.result = "ok" /\ resp'.op \in {"tx_create", "tx_update", "tx_admin",
                                               "tx_delete"} =>
            \E w \in Written :
               /\ accounts' =
                     {IF a.id = w.account
                      THEN [a EXCEPT !.balance =
                               SignedSum(TransactionsOn(w.account, transactions'))]
                      ELSE a : a \in accounts}
               /\ {t \in transactions' : t.id # w.id} = {t \in transactions : t.id # w.id}
               /\ resp'.op = "tx_delete" <=> w \notin transactions'
               /\ UNCHANGED <<users, categories, budgets>>
         ]_vars

\* A transaction has just been written on one account while the other account, which
\* a transaction was moved away from, stores a balance that is not its transactions'.
RecalculationEffectWitness ==
    /\ resp.result = "ok" /\ resp.op \in {"tx_create", "tx_update", "tx_delete"}
    /\ \E a \in accounts : a.balance # SignedSum(TransactionsOn(a.id, transactions))
    /\ \E a \in accounts :
          /\ TransactionsOn(a.id, transactions) # {}
          /\ a.balance = SignedSum(TransactionsOn(a.id, transactions))

\* C20 (active budgets): get_active_budgets(user) returns exactly the budgets of the
\* user with period_start <= today <= period_end: a budget is active on its
\* period_start and on its period_end, not on the day before the one nor on the day
\* after the other, and never for another user.
ActiveBudgets ==
    \A u \in Users, today \in 0 .. MaxDay + 1 :
       LET active == get_active_budgets(budgets, u, today)
       IN /\ active \subseteq budgets
          /\ \A b \in budgets :
                /\ b \in active <=> /\ b.user = u
                                    /\ today \in b.period_start .. b.period_end
                /\ b.user = u /\ today \in {b.period_start, b.period_end} => b \in active
                /\ today \in {b.period_start - 1, b.period_end + 1} => b \notin active
                /\ b.user # u => b \notin active

\* Both users hold a budget over the same days: on its last day each user's list
\* holds that user's budget alone, and a day later nothing.
ActiveBudgetsWitness ==
    \E a \in budgets, b \in budgets :
       /\ a.user # b.user
       /\ a.period_start = b.period_start /\ a.period_end = b.period_end
       /\ get_active_budgets(budgets, a.user, a.period_end) = {a}
       /\ get_active_budgets(budgets, a.user, a.period_end + 1) = {}

(***************************************************************************)
(* Properties of alerts and summaries.                                     *)
(***************************************************************************)
\* Whether a budget is at an alert tier: exceeded, or at 90 percent or more.
AtAlertTier(b, txs) ==
    LET spent == SumAmount({t \in txs : CountsFor(b, t)})
    IN spent > b.amount \/ spent * 100 >= 90 * b.amount

\* The tier of a budget at an alert tier.
TierOf(b, txs) ==
    IF SumAmount({t \in txs : CountsFor(b, t)}) > b.amount THEN "exceeded" ELSE "percent"

\* C21 (targeted alerts): for a written transaction t of the user,
\* check_budget_alerts(user, t) returns one alert for each active budget of the user
\* that has t's category and is exceeded or at 90 percent or more, if t is an
\* EXPENSE, in the order of the active budgets: the exceeded message when spent is
\* above the limit, the percentage message otherwise.  It returns none for a budget
\* under 90 percent, of another category or not active, and none at all for an INCOME.
TargetedAlerts ==
    \A t \in transactions, today \in AlertDays :
       \A order \in QueryOrders(get_active_budgets(budgets, t.user, today)) :
          LET alerts == check_budget_alerts(order, transactions, {t})
              due == SelectSeq(order, LAMBDA b : /\ t.type = EXPENSE
                                                 /\ b.category = t.category
                                                 /\ AtAlertTier(b, transactions))
          IN /\ Len(alerts) = Len(due)
             /\ \A k \in 1 .. Len(due) :
                   /\ alerts[k].category = due[k].category
                   /\ alerts[k].tier = TierOf(due[k], transactions)
                   /\ alerts[k].targeted
             /\ t.type = INCOME => alerts = <<>>

\* An expense in Food has just been written; the user's two active budgets, on Food
\* and on Rent, are both exceeded, and the alert is the one of Food alone.
TargetedAlertsWitness ==
    /\ resp.op = "tx_create" /\ resp.result = "ok"
    /\ \E t \in transactions, f \in budgets, r \in budgets :
          /\ t.id = seq.transaction - 1 /\ t.type = EXPENSE
          /\ f.user = t.user /\ r.user = t.user
          /\ f.category = t.category /\ r.category # t.category
          /\ AtAlertTier(f, transactions) /\ AtAlertTier(r, transactions)
          /\ get_active_budgets(budgets, t.user, 2) = {f, r}
          /\ \E order \in QueryOrders({f, r}) :
                /\ Len(check_budget_alerts(order, transactions, {t})) = 1
                /\ check_budget_alerts(order, transactions, {t})[1].tier = "exceeded"

\* What a budget has spent, from the transaction table.
SpentOf(b, txs) == SumAmount({t \in txs : CountsFor(b, t)})

\* C22 (general alerts): check_budget_alerts(user) returns one alert for each active
\* budget of the user that is exceeded or at 90 percent or more, in the order of the
\* active budgets and none else: the exceeded message, with the amount above the
\* limit, when spent is above the limit, the percentage message, with the amount
\* left, otherwise, so that a budget spent exactly gets the percentage message.
\* There are never more alerts than active budgets.
GeneralAlerts ==
    \A u \in Users, today \in AlertDays :
       \A order \in QueryOrders(get_active_budgets(budgets, u, today)) :
          LET alerts == check_budget_alerts(order, transactions, {})
              due == SelectSeq(order, LAMBDA b : AtAlertTier(b, transactions))
          IN /\ Len(alerts) = Len(due)
             /\ Len(alerts) <= Cardinality(get_active_budgets(budgets, u, today))
             /\ \A k \in 1 .. Len(due) :
                   LET spent == SpentOf(due[k], transactions)
                   IN /\ alerts[k].category = due[k].category
                      /\ ~alerts[k].targeted
                      /\ alerts[k].tier = IF spent > due[k].amount THEN "exceeded"
                                          ELSE "percent"
                      /\ alerts[k].amount = IF spent > due[k].amount
                                            THEN spent - due[k].amount
                                            ELSE due[k].amount - spent

\* A user has two active budgets, one spent exactly and one exceeded: the alerts are
\* the two, the first with the percentage message and nothing left.
GeneralAlertsWitness ==
    \E f \in budgets, r \in budgets :
       /\ f.user = "alice" /\ r.user = "alice"
       /\ SpentOf(f, transactions) = f.amount
       /\ SpentOf(r, transactions) > r.amount
       /\ get_active_budgets(budgets, "alice", 1) = {f, r}
       /\ \E order \in QueryOrders({f, r}) :
             LET alerts == check_budget_alerts(order, transactions, {})
             IN /\ order[1] = f
                /\ Len(alerts) = 2
                /\ alerts[1].tier = "percent" /\ alerts[1].amount = 0
                /\ alerts[2].tier = "exceeded"

\* C23 (category uniqueness): no two stored categories share name, owner and type,
\* those of a user and the system defaults alike.
CategoryUnique ==
    \A c, d \in categories :
       (c.name = d.name /\ c.user = d.user /\ c.type = d.type) => c = d

\* The reads of the budget service.
ReadOps ==
    {"get_budget_status", "get_all_budgets_with_status", "get_budget_summary",
     "check_budget_alerts"}

\* C24 (budget status is a pure read): a call of get_budget_status,
\* get_all_budgets_with_status, get_budget_summary or check_budget_alerts changes no
\* stored row, and what it returns is what the transactions stored at the call
\* give, whatever was created, updated or deleted before it.
StatusIsPureRead ==
    [][resp'.op \in ReadOps =>
          /\ UNCHANGED <<users, accounts, categories, transactions, budgets, seq>>
          /\ resp'.op = "get_budget_status" =>
                \E b \in budgets :
                   /\ b.id = resp'.arg
                   /\ resp'.value.spent = SpentOf(b, transactions)
                   /\ resp'.value.remaining = b.amount - SpentOf(b, transactions)
                   /\ resp'.value.is_exceeded = (SpentOf(b, transactions) > b.amount)
          /\ resp'.op = "get_all_budgets_with_status" =>
                /\ Len(resp'.value.out)
                      = Cardinality({b \in budgets : b.user = resp'.value.user})
                /\ \A k \in 1 .. Len(resp'.value.out) :
                      \E b \in budgets :
                         /\ b.user = resp'.value.user
                         /\ b.id = resp'.value.out[k].budget
                         /\ resp'.value.out[k].spent = SpentOf(b, transactions)
                         /\ resp'.value.out[k].remaining = b.amount - SpentOf(b, transactions)
          /\ resp'.op = "get_budget_summary" =>
                LET active == {b \in budgets : /\ b.user = resp'.value.user
                                               /\ b.period_start <= resp'.arg
                                               /\ resp'.arg <= b.period_end}
                IN /\ resp'.value.out.total = Cardinality(active)
                   /\ resp'.value.out.exceeded
                         = Cardinality({b \in active : SpentOf(b, transactions) > b.amount})
          /\ resp'.op = "check_budget_alerts" =>
                LET active == {b \in budgets : /\ b.user = resp'.value.user
                                               /\ b.period_start <= resp'.arg
                                               /\ resp'.arg <= b.period_end}
                IN Len(resp'.value.out)
                      = Cardinality({b \in active : AtAlertTier(b, transactions)})]_vars

\* A transaction was written and deleted again, and the list read after it shows a
\* budget with nothing spent.
StatusIsPureReadWitness ==
    /\ resp.op = "get_all_budgets_with_status"
    /\ seq.transaction > 1 /\ transactions = {}
    /\ Len(resp.value.out) > 0
    /\ resp.value.out[1].spent = 0

\* Whether the stored balance of account a is what its transactions give.
BalanceRight(accs, a, txs) == BalanceOf(accs, a) = SignedSum(TransactionsOn(a, txs))

\* C25 (the balance race): transaction writes on one account that run beside each
\* other can leave, once all have answered, a balance that is not income minus
\* expense (the witness).  The balance then stays as it is, for only the write of a
\* recalculation changes a stored balance, and a recalculation of the account called
\* after the requests makes it income minus expense again.
BalanceRace ==
    [][/\ (inflight = {} /\ inflight' = {} /\ resp'.op = "recalculate")
             => BalanceRight(accounts', resp'.arg, transactions')
       /\ accounts' # accounts
             => \/ inflight = {} /\ inflight' = {} /\ resp'.op = "recalculate"
                \/ \E r \in inflight : r.pc = "save" /\ inflight' = inflight \ {r}]_vars

\* Two requests, an expense of 45.50 and an income of 5000.00 on alice's account, have
\* both answered, and the balance stored is not 4954.50.
BalanceRaceWitness ==
    /\ inflight = {}
    /\ resp.op = "tx_create"
    /\ Cardinality(transactions) = 2
    /\ \E t \in transactions : IsExpense4550(t)
    /\ \E t \in transactions : IsIncome500000(t)
    /\ \A t \in transactions : t.account = 1
    /\ ~BalanceRight(accounts, 1, transactions)
    /\ SignedSum(TransactionsOn(1, transactions)) = 495450

\* C26 (self-exclusion on budget update): an update of a budget through
\* BudgetUpdateView is answered with the overlap error only if another budget of the
\* user and the category chosen overlaps the period asked for, so an update that
\* keeps the category and the period is never turned down for overlapping itself;
\* and with no budget excluded every stored budget overlaps itself.
SelfExclusion ==
    /\ [](\A b \in budgets :
             validate_budget_overlap(budgets, b.user, b.category, b.period_start,
                                     b.period_end, NoId))
    /\ [][resp'.op = "budget_update" /\ resp'.result = "overlap" =>
             \A u \in Users, pk \in 1 .. MaxBudgets, c \in AlertBudgetCategories,
                amt \in StatusBudgetAmounts, p \in UpdatePeriods :
                BudgetUpdateView(u, pk, c, amt, p[1], p[2]) =>
                   /\ \E other \in budgets :
                         /\ other.id # pk /\ other.user = u /\ other.category = c.id
                         /\ other.period_start <= p[2] /\ p[1] <= other.period_end
                   /\ \A b \in budgets :
                         b.id = pk => ~(b.category = c.id /\ b.period_start = p[1]
                                        /\ b.period_end = p[2])]_vars

\* A budget has just been given another limit, its category and period kept, next to
\* a budget of the same user and category on the other period; and an update
\* that moves a budget onto another budget's category and period is turned down.
SelfExclusionWitness ==
    /\ resp.op = "budget_update" /\ resp.result = "ok"
    /\ \E b \in budgets, other \in budgets :
          /\ b.id # other.id /\ b.user = other.user /\ b.category = other.category
          /\ b.amount \notin BudgetAmounts
          /\ validate_budget_overlap(budgets, b.user, b.category, b.period_start,
                                     b.period_end, NoId)
          /\ ~validate_budget_overlap(budgets, b.user, b.category, b.period_start,
                                      b.period_end, b.id)

\* An update has been turned down for overlapping another budget.
SelfExclusionRefusalWitness == resp.op = "budget_update" /\ resp.result = "overlap"

\* The sum of what the budgets bs have spent, as get_budget_status tells it.
RECURSIVE TotalSpent(_, _)
TotalSpent(bs, txs) ==
    IF bs = {} THEN 0
    ELSE LET b == CHOOSE x \in bs : TRUE
         IN get_budget_status(b, txs).spent + TotalSpent(bs \ {b}, txs)

\* C27 (single attribution): with budgets created and updated through the views,
\* every EXPENSE transaction is counted in the spent of at most one budget of its
\* user and category, and what a user's budgets of one category have spent together
\* is at most the total of the user's EXPENSE transactions of that category.
SingleAttribution ==
    /\ \A t \in transactions :
          t.type = EXPENSE =>
             Cardinality({b \in budgets : t \in SpentRows(b, transactions)}) <= 1
    /\ \A u \in Users, c \in categories :
          TotalSpent({b \in budgets : b.user = u /\ b.category = c.id}, transactions)
             <= SumAmount({t \in transactions :
                             t.user = u /\ t.category = c.id /\ t.type = EXPENSE})

\* Two budgets of one user and category on periods one after the other, and an
\* expense on the first day of the second, counted by the second alone.
SingleAttributionWitness ==
    \E a \in budgets, b \in budgets, t \in transactions :
       /\ a.user = b.user /\ a.category = b.category
       /\ a.period_end + 1 = b.period_start
       /\ t.date = b.period_start
       /\ t \in SpentRows(b, transactions)
       /\ t \notin SpentRows(a, transactions)
       /\ get_budget_status(b, transactions).spent = t.amount

\* An alert without the mark of the text it is worded in.
Unworded(alert) == [tier |-> alert.tier, category |-> alert.category, amount |-> alert.amount]

\* The alerts of a list that are about the category c, unworded.
AboutCategory(alerts, c) ==
    LET about == SelectSeq(alerts, LAMBDA a : a.category = c)
    IN [k \in 1 .. Len(about) |-> Unworded(about[k])]

\* C28 (targeted and general alerts agree): for an EXPENSE transaction t of the
\* user, check_budget_alerts(user, t) alerts the budgets of t's category that
\* check_budget_alerts(user) alerts, at the same tier and with the same amount, and
\* the same ones whatever the amount and the date of t: a transaction dated outside
\* a budget's period raises that budget's alert too.
AlertsAgree ==
    \A t \in transactions, today \in AlertDays :
       t.type = EXPENSE =>
          \A order \in QueryOrders(get_active_budgets(budgets, t.user, today)) :
             LET targeted == check_budget_alerts(order, transactions, {t})
                 general == check_budget_alerts(order, transactions, {})
             IN /\ AboutCategory(targeted, t.category) = AboutCategory(general, t.category)
                /\ Len(AboutCategory(targeted, t.category)) = Len(targeted)
                /\ \A v \in AlertVariations :
                      check_budget_alerts(order, transactions,
                                          {[t EXCEPT !.amount = v[1], !.date = v[2]]})
                         = targeted

\* An expense dated after the period of the only Food budget has just been written;
\* the budget is exceeded by an earlier expense, and both checks alert it.
AlertsAgreeWitness ==
    /\ resp.op = "tx_create" /\ resp.result = "ok"
    /\ \E t \in transactions, b \in budgets :
          /\ t.id = seq.transaction - 1 /\ t.type = EXPENSE
          /\ b.user = t.user /\ b.category = t.category
          /\ b.period_end < t.date
          /\ get_active_budgets(budgets, t.user, 1) = {b}
          /\ Len(check_budget_alerts(<<b>>, transactions, {t})) = 1
          /\ check_budget_alerts(<<b>>, transactions, {t})[1].tier = "exceeded"
          /\ Len(check_budget_alerts(<<b>>, transactions, {})) = 1

\* C29 (summary partition): get_budget_summary returns counts that are not negative,
\* with total = exceeded + warning + good; total is the number of the user's active
\* budgets, exceeded the number of those with spent above the limit, warning the
\* number of those at 90 percent or more and not exceeded, and good the rest, which
\* holds the budgets whose status is 'warning' (from 70 up to 90 percent).
SummaryPartition ==
    \A u \in Users, today \in AlertDays :
       LET active == {b \in budgets : /\ b.user = u /\ b.period_start <= today
                                      /\ today <= b.period_end}
           summary == get_budget_summary(get_active_budgets(budgets, u, today),
                                         transactions)
           over == {b \in active : SpentOf(b, transactions) > b.amount}
           near == {b \in active \ over : SpentOf(b, transactions) * 100 >= 90 * b.amount}
       IN /\ summary.total >= 0 /\ summary.exceeded >= 0
          /\ summary.warning >= 0 /\ summary.good >= 0
          /\ summary.total = summary.exceeded + summary.warning + summary.good
          /\ summary.total = Cardinality(active)
          /\ summary.exceeded = Cardinality(over)
          /\ summary.warning = Cardinality(near)
          /\ summary.good = Cardinality((active \ over) \ near)
          /\ \A b \in active :
                (/\ SpentOf(b, transactions) * 100 >= 70 * b.amount
                 /\ SpentOf(b, transactions) * 100 < 90 * b.amount)
                   => b \in (active \ over) \ near

\* A user has two active budgets, one exceeded and one at 89.99 percent, whose status
\* is 'warning': the summary counts 2 in all, 1 exceeded, 0 warning and 1 good.
SummaryPartitionWitness ==
    \E b \in budgets :
       /\ b.user = "alice"
       /\ get_budget_status(b, transactions).status = "warning"
       /\ b \in get_active_budgets(budgets, "alice", 1)
       /\ get_budget_summary(get_active_budgets(budgets, "alice", 1), transactions)
             = [total |-> 2, exceeded |-> 1, warning |-> 0, good |-> 1]

\* The transaction rows a step has written, as they were and as they are.
RowsChanged == (transactions \ transactions') \cup (transactions' \ transactions)

\* A step that creates, updates or deletes transactions of type INCOME only leaves
\* what get_budget_status returns for every budget as it was.
IncomeWritesLeaveBudgets ==
    [][(RowsChanged # {} /\ \A t \in RowsChanged : t.type = INCOME) =>
          \A b \in budgets :
             get_budget_status(b, transactions') = get_budget_status(b, transactions)]_vars

\* C30 (income never counts against a budget), its second half: a budget whose
\* category has type INCOME has spent = 0 and the status 'good'.
IncomeBudgetsUnspent ==
    \A b \in budgets :
       CategoryOf(b.category).type = INCOME =>
          /\ get_budget_status(b, transactions).spent = 0
          /\ get_budget_status(b, transactions).status = "good"

====
